---- MODULE Spec2Model ----
(***************************************************************************)
(* A model of the simulated Ubuntu terminal: the persistent file system of *)
(* src/src/lib/terminalStorage.ts, the command interpreter of              *)
(* src/src/lib/commandProcessor.ts and the Enter handler of                *)
(* src/src/components/Terminal.tsx.                                        *)
(*                                                                         *)
(* Representation of text.  A JavaScript string that may hold slashes is   *)
(* kept as the sequence of its pieces between the slashes, that is as the  *)
(* value of s.split('/'): "/etc/hosts" is <<"", "etc", "hosts">>, "/" is   *)
(* <<"", "">>, "a" is <<"a">> and the empty string is <<"">>.  The         *)
(* representation is one-to-one, so string equality is equality of the     *)
(* sequences.  A file's content is the sequence of its lines, that is the  *)
(* value of content.split('\n').  A command line is the sequence of its    *)
(* tokens, the value of command.trim().split(/\s+/), and << >> for a blank *)
(* line.                                                                   *)
(*                                                                         *)
(* Inherited members.  children and users are plain JavaScript objects, so *)
(* obj[name] for a name of InheritedNames that is no own key yields the    *)
(* member inherited from Object.prototype: a truthy value whose type,      *)
(* children, content, password and homeDir are undefined.  A write to such *)
(* a value (chmod, passwd) lands on the shared member and not in the       *)
(* store.  The shared members are reachable from every object; the model   *)
(* keeps what has been written to them in the field `inherited` of the     *)
(* loaded object and of defaultFileSystem, and JSON.stringify leaves it    *)
(* out of localStorage.  __proto__ is not among the names.                 *)
(*                                                                         *)
(* Tabs.  The module-level objects (defaultFileSystem, commandHistory) and *)
(* the TerminalState exist once per tab; the variables of those names are  *)
(* the ones of the tab in front and otherTab holds those of a second tab.  *)
(* localStorage is the one value both tabs read and write.                 *)
(***************************************************************************)
EXTENDS Integers, Sequences, FiniteSets, TLC

VARIABLES
    localStorage,       \* the value under FS_STORAGE_KEY: << >> when absent, <<fs>> when set,
                        \* <<Unparsable>> when it is no JSON
    defaultFileSystem,  \* the module-level default object (mutable: load may hand it out)
    state,              \* Terminal's TerminalState: currentPath and the pending-mode fields
    now,                \* the clock: the value of the last Date.now()
    lastLine,           \* the line submitted by the last Enter
    lastResult,         \* the CommandResult returned for it
    call,               \* the last direct call of an exported function: its arguments
    returned,           \* the value that call returned
    commandHistory,     \* the module-level history: commands, and position counted from 0
    otherTab            \* a second tab on the same origin, in the background: its own
                        \* defaultFileSystem, TerminalState and commandHistory

vars ==
    <<localStorage, defaultFileSystem, state, now, lastLine, lastResult, call, returned,
      commandHistory, otherTab>>

-----------------------------------------------------------------------------
(* Strings *)

EMPTY == <<"">>
SLASH == <<"", "">>

W(s) == <<s>>

Front(s) == SubSeq(s, 1, Len(s) - 1)
Last(s) == s[Len(s)]

\* a + b on strings
StrCat(a, b) == Front(a) \o <<Last(a) \o Head(b)>> \o Tail(b)

RECURSIVE StrCatAll(_)
StrCatAll(ss) == IF ss = << >> THEN EMPTY ELSE StrCat(Head(ss), StrCatAll(Tail(ss)))

\* ss.join(sep)
RECURSIVE join(_, _)
join(ss, sep) ==
    IF ss = << >> THEN EMPTY
    ELSE IF Len(ss) = 1 THEN ss[1]
    ELSE StrCat(ss[1], StrCat(sep, join(Tail(ss), sep)))

\* tokens.join(' ')
JoinSp(ts) == join(ts, W(" "))

\* s.startsWith('/')
startsWithSlash(s) == Len(s) >= 2 /\ s[1] = ""

\* s.split('/').filter(Boolean)
Segments(s) == SelectSeq(s, LAMBDA p : p # "")

\* '/' + segments.join('/')
FromSegments(segs) == IF segs = << >> THEN SLASH ELSE <<"">> \o segs

-----------------------------------------------------------------------------
(* terminalStorage.ts: the data *)

FileNode(content, owner, permissions) ==
    [type |-> "file", content |-> content, owner |-> owner,
     permissions |-> permissions, created |-> 0, modified |-> 0]

DirNode(children, owner, permissions) ==
    [type |-> "directory", children |-> children, owner |-> owner,
     permissions |-> permissions, created |-> 0, modified |-> 0]

NoChildren == [n \in {} |-> 0]

UBUNTU == W("ubuntu")
ROOTUSER == W("root")

BashrcUbuntu ==
    << <<"# ~", ".bashrc: executed by bash for non-login shells">>,
       W("# If not running interactively, don't do anything"),
       W("[[ \"$-\" != *i* ]] && return"),
       W("# Don't put duplicate lines in the history"),
       W("HISTCONTROL=ignoreboth") >>

BashrcRoot ==
    << <<"# ~", ".bashrc: executed by bash for non-login shells">>,
       W("# Root user specific settings"),
       W("PS1=\"\\[\\033[01;31m\\]\\u@\\h:\\w\\$\\[\\033[00m\\] \"") >>

DefaultRoot ==
    DirNode(
        "home" :> DirNode(
            "ubuntu" :> DirNode(
                "welcome.txt" :> FileNode(
                    << W("Welcome to Ubuntu Terminal!"),
                       W("Type \"help\" to see available commands.") >>,
                    UBUNTU, W("rw-r--r--"))
                @@ ".bashrc" :> FileNode(BashrcUbuntu, UBUNTU, W("rw-r--r--")),
                UBUNTU, W("rwxr-xr-x")),
            ROOTUSER, W("rwxr-xr-x"))
        @@ "etc" :> DirNode(
            "passwd" :> FileNode(
                << <<"root:x:0:0:root:", "root:", "bin", "bash">>,
                   <<"ubuntu:x:1000:1000:Ubuntu:", "home", "ubuntu:", "bin", "bash">> >>,
                ROOTUSER, W("rw-r--r--"))
            @@ "hostname" :> FileNode(<< W("ubuntu-terminal") >>, ROOTUSER, W("rw-r--r--"))
            @@ "hosts" :> FileNode(
                << W("127.0.0.1 localhost"), W("127.0.1.1 ubuntu-terminal") >>,
                ROOTUSER, W("rw-r--r--")),
            ROOTUSER, W("rwxr-xr-x"))
        @@ "bin" :> DirNode(NoChildren, ROOTUSER, W("rwxr-xr-x"))
        @@ "usr" :> DirNode(
            "bin" :> DirNode(NoChildren, ROOTUSER, W("rwxr-xr-x")),
            ROOTUSER, W("rwxr-xr-x"))
        @@ "var" :> DirNode(
            "log" :> DirNode(
                "syslog" :> FileNode(
                    << W("Apr 16 00:00:00 ubuntu-terminal systemd[1]: Started User Manager for UID 1000."),
                       W("Apr 16 00:00:01 ubuntu-terminal systemd[1]: Starting System Logger..."),
                       W("Apr 16 00:00:01 ubuntu-terminal systemd[1]: Started System Logger.") >>,
                    ROOTUSER, W("rw-r--r--")),
                ROOTUSER, W("rwxr-xr-x")),
            ROOTUSER, W("rwxr-xr-x"))
        @@ "tmp" :> DirNode(NoChildren, ROOTUSER, W("rwxrwxrwx"))
        @@ "root" :> DirNode(
            ".bashrc" :> FileNode(BashrcRoot, ROOTUSER, W("rw-------")),
            ROOTUSER, W("rwx------")),
        ROOTUSER, W("rwxr-xr-x"))

DefaultUsers ==
    ROOTUSER :> [password |-> W("toor"), isAdmin |-> TRUE, homeDir |-> <<"", "root">>]
    @@ UBUNTU :> [password |-> W("ubuntu"), isAdmin |-> FALSE, homeDir |-> <<"", "home", "ubuntu">>]

\* the value undefined (no string: the empty string is <<"">>)
UNDEFINED == << >>

\* the function members every object inherits from Object.prototype
InheritedNames ==
    {"constructor", "toString", "toLocaleString", "valueOf", "hasOwnProperty",
     "isPrototypeOf", "propertyIsEnumerable"}

\* what has been written to the inherited members: nothing at the start
NothingWritten == [name \in InheritedNames |-> [permissions |-> UNDEFINED, password |-> UNDEFINED]]

DefaultFS ==
    [root |-> DefaultRoot, currentUser |-> UBUNTU, users |-> DefaultUsers,
     inherited |-> NothingWritten]

-----------------------------------------------------------------------------
(* terminalStorage.ts: the operations.                                     *)
(* An operation works on m = [fs |-> the object it was handed,             *)
(* ls |-> localStorage] and yields [ok |-> its return value, m |-> both    *)
(* after the call].                                                        *)

\* a stored value JSON.parse throws on
Unparsable == [text |-> "{"]

\* getItem returned a value and JSON.parse returned an object for it
parses(ls) == ls # << >> /\ ls[1] # Unparsable

\* a load that hands out the tab's module-level object whatever is stored
loadFileSystemCached(ls, dflt) == dflt

\* loadFileSystem: the parsed copy of the stored value, or the default object itself
loadFileSystem(ls, dflt) ==
    IF parses(ls) THEN ls[1] @@ [inherited |-> dflt.inherited] ELSE dflt

\* the object loadFileSystem returned is defaultFileSystem itself
loadedDefault(ls) == ~parses(ls)

\* JSON.stringify(fs): the own properties
stringified(fs) == [root |-> fs.root, currentUser |-> fs.currentUser, users |-> fs.users]

saveFileSystem(m) == [m EXCEPT !.ls = <<stringified(m.fs)>>]

\* defaultFileSystem after a caller has written to the object load returned: that
\* object is defaultFileSystem itself when localStorage was empty, and shares the
\* inherited members with it otherwise
defaultAfter(ls, dflt, fs) ==
    IF loadedDefault(ls) THEN fs ELSE [dflt EXCEPT !.inherited = fs.inherited]

homeDirOf(fs) ==
    IF fs.currentUser \in DOMAIN fs.users /\ fs.users[fs.currentUser].homeDir # EMPTY
    THEN fs.users[fs.currentUser].homeDir
    ELSE StrCat(<<"", "home", "">>, fs.currentUser)

\* the segment loop pushing `..` when there is nothing to pop
RECURSIVE applySegmentsKeepsDotDot(_, _)
applySegmentsKeepsDotDot(currentSegments, segments) ==
    IF segments = << >> THEN currentSegments
    ELSE LET segment == Head(segments)
             next == IF segment = ".." /\ Len(currentSegments) > 0
                     THEN Front(currentSegments)
                     ELSE IF segment # "." THEN Append(currentSegments, segment)
                     ELSE currentSegments
         IN applySegmentsKeepsDotDot(next, Tail(segments))

RECURSIVE applySegments(_, _)
applySegments(currentSegments, segments) ==
    IF segments = << >> THEN currentSegments
    ELSE LET segment == Head(segments)
             next == IF segment = ".."
                     THEN (IF Len(currentSegments) > 0 THEN Front(currentSegments)
                           ELSE currentSegments)
                     ELSE IF segment # "." THEN Append(currentSegments, segment)
                     ELSE currentSegments
         IN applySegments(next, Tail(segments))

\* resolvePath without the branch for `~/`
resolvePathTildeAlone(fs, path, currentPath) ==
    IF startsWithSlash(path) THEN path
    ELSE IF path = W("~") THEN homeDirOf(fs)
    ELSE FromSegments(applySegments(Segments(currentPath), Segments(path)))

resolvePath(fs, path, currentPath) ==
    IF startsWithSlash(path) THEN path
    ELSE IF path = W("~") THEN homeDirOf(fs)
    ELSE IF Len(path) >= 2 /\ path[1] = "~" THEN StrCat(homeDirOf(fs), <<"">> \o Tail(path))
    ELSE FromSegments(applySegments(Segments(currentPath), Segments(path)))

hasChildren(node) == "children" \in DOMAIN node

\* an inherited member read as a FileSystemNode
InheritedNode(written) ==
    [type |-> "undefined", owner |-> UNDEFINED, permissions |-> written.permissions,
     created |-> UNDEFINED, modified |-> UNDEFINED]

\* children[name] is truthy
hasMember(children, name) == name \in DOMAIN children \/ name \in InheritedNames

\* children[name]
member(children, name, inherited) ==
    IF name \in DOMAIN children THEN children[name] ELSE InheritedNode(inherited[name])

RECURSIVE walk(_, _, _)
walk(current, segments, inherited) ==
    IF segments = << >> THEN <<current>>
    ELSE IF ~hasChildren(current) \/ ~hasMember(current.children, Head(segments))
         THEN << >>
    ELSE walk(member(current.children, Head(segments), inherited), Tail(segments), inherited)

\* every segment of the path is an own key on the way down from the root
RECURSIVE ownWalk(_, _)
ownWalk(current, segments) ==
    IF segments = << >> THEN TRUE
    ELSE IF ~hasChildren(current) \/ Head(segments) \notin DOMAIN current.children
         THEN FALSE
    ELSE ownWalk(current.children[Head(segments)], Tail(segments))

\* getNode: << >> for null, <<node>> for a node
getNode(fs, path) ==
    IF path = SLASH THEN <<fs.root>> ELSE walk(fs.root, Segments(path), fs.inherited)

\* the tree with the object at the given segments replaced (a write through a reference)
RECURSIVE replaceAt(_, _, _)
replaceAt(node, segments, new) ==
    IF segments = << >> THEN new
    ELSE [node EXCEPT !.children[Head(segments)] = replaceAt(@, Tail(segments), new)]

\* a write to an inherited member does not reach the tree
setNode(fs, path, new) ==
    IF ownWalk(fs.root, Segments(path))
    THEN [fs EXCEPT !.root = replaceAt(@, Segments(path), new)]
    ELSE fs

RECURSIVE cloneNode(_, _)
cloneNode(node, t) ==
    LET base == [type |-> node.type, owner |-> node.owner,
                 permissions |-> node.permissions, created |-> node.created,
                 modified |-> t]
        withContent == IF "content" \in DOMAIN node
                       THEN base @@ [content |-> node.content] ELSE base
    IN IF hasChildren(node)
       THEN withContent @@
            [children |-> [name \in DOMAIN node.children |-> cloneNode(node.children[name], t)]]
       ELSE withContent

\* path.lastIndexOf('/') <= 0 ? '/' : path.substring(0, lastSlashIndex)
parentPathOf(path) ==
    IF Len(path) = 1 \/ (Len(path) = 2 /\ path[1] = "") THEN SLASH ELSE Front(path)

\* path.substring(path.lastIndexOf('/') + 1)
nameOf(path) == Last(path)

newNode(fs, type, content, t) ==
    IF type = "file"
    THEN [type |-> type, owner |-> fs.currentUser, permissions |-> W("rw-r--r--"),
          created |-> t, modified |-> t, content |-> content]
    ELSE [type |-> type, owner |-> fs.currentUser, permissions |-> W("rwxr-xr-x"),
          created |-> t, modified |-> t, children |-> NoChildren]

\* createNode once the parent has been looked up
createIn(m, path, type, content, t, parentNode) ==
    IF nameOf(path) = "" THEN [ok |-> FALSE, m |-> m]
    ELSE IF parentNode = << >> \/ parentNode[1].type # "directory"
    THEN [ok |-> FALSE, m |-> m]
    ELSE IF ~hasChildren(parentNode[1])
    THEN [ok |-> TRUE,
          m |-> saveFileSystem([m EXCEPT !.fs = setNode(@, parentPathOf(path),
                   parentNode[1] @@
                   [children |-> nameOf(path) :> newNode(m.fs, type, content, t)])])]
    ELSE IF hasMember(parentNode[1].children, nameOf(path)) THEN [ok |-> FALSE, m |-> m]
    ELSE [ok |-> TRUE,
          m |-> saveFileSystem([m EXCEPT !.fs = setNode(@, parentPathOf(path),
                   [parentNode[1] EXCEPT !.children =
                       (nameOf(path) :> newNode(m.fs, type, content, t)) @@ @])])]

createNode(m, path, type, content, t) ==
    createIn(m, path, type, content, t, getNode(m.fs, parentPathOf(path)))

\* deleteNode once the parent has been looked up
deleteIn(m, path, parentNode) ==
    IF nameOf(path) = "" THEN [ok |-> FALSE, m |-> m]
    ELSE IF parentNode = << >> \/ parentNode[1].type # "directory"
            \/ ~hasChildren(parentNode[1])
    THEN [ok |-> FALSE, m |-> m]
    ELSE IF ~hasMember(parentNode[1].children, nameOf(path)) THEN [ok |-> FALSE, m |-> m]
    ELSE [ok |-> TRUE,
          m |-> saveFileSystem([m EXCEPT !.fs = setNode(@, parentPathOf(path),
                   [parentNode[1] EXCEPT !.children =
                       [n \in (DOMAIN @) \ {nameOf(path)} |-> @[n]]])])]

deleteNode(m, path) == deleteIn(m, path, getNode(m.fs, parentPathOf(path)))

\* copyNode once the source is known to exist and the destination directory and name
\* have been chosen
copyInto(m, sourceNode, destDirPath, destName, destDir, t) ==
    IF destDir = << >> \/ destDir[1].type # "directory" THEN [ok |-> FALSE, m |-> m]
    ELSE IF ~hasChildren(destDir[1])
    THEN [ok |-> TRUE,
          m |-> saveFileSystem([m EXCEPT !.fs = setNode(@, destDirPath,
                   destDir[1] @@ [children |-> destName :> cloneNode(sourceNode[1], t)])])]
    ELSE [ok |-> TRUE,
          m |-> saveFileSystem([m EXCEPT !.fs = setNode(@, destDirPath,
                   [destDir[1] EXCEPT !.children =
                       (destName :> cloneNode(sourceNode[1], t)) @@ @])])]

\* copyNode once the source and the destination have been looked up
copyTo(m, sourcePath, destinationPath, sourceNode, destNode, t) ==
    IF sourceNode = << >> THEN [ok |-> FALSE, m |-> m]
    ELSE IF destNode # << >> /\ destNode[1].type = "directory"
    THEN (IF Last(sourcePath) = "" THEN [ok |-> FALSE, m |-> m]
          ELSE copyInto(m, sourceNode, destinationPath, Last(sourcePath),
                        destNode, t))
    ELSE IF Len(destinationPath) = 1 THEN [ok |-> FALSE, m |-> m]
    ELSE IF Front(destinationPath) = EMPTY
    THEN copyInto(m, sourceNode, SLASH, Last(destinationPath), getNode(m.fs, SLASH), t)
    ELSE copyInto(m, sourceNode, Front(destinationPath), Last(destinationPath),
                  getNode(m.fs, Front(destinationPath)), t)

copyNode(m, sourcePath, destinationPath, t) ==
    copyTo(m, sourcePath, destinationPath, getNode(m.fs, sourcePath),
           getNode(m.fs, destinationPath), t)

\* moveNode once the copy has been made
moveAfter(copied, sourcePath) ==
    IF copied.ok THEN deleteNode(copied.m, sourcePath)
    ELSE [ok |-> FALSE, m |-> copied.m]

moveNode(m, sourcePath, destinationPath, t) ==
    moveAfter(copyNode(m, sourcePath, destinationPath, t), sourcePath)

\* the strings that match /^[r-][w-][x-][r-][w-][x-][r-][w-][x-]$/
RwxTriples == {r \o w \o x : r \in {"r", "-"}, w \in {"w", "-"}, x \in {"x", "-"}}
CanonicalModes == {W(a \o b \o c) : a \in RwxTriples, b \in RwxTriples, c \in RwxTriples}

changeNode(m, path, mode, node) ==
    IF node = << >> THEN [ok |-> FALSE, m |-> m]
    ELSE IF mode \notin CanonicalModes /\ ~ownWalk(m.fs.root, Segments(path))
    THEN [ok |-> TRUE,
          m |-> saveFileSystem([m EXCEPT
                   !.fs.inherited[Last(Segments(path))].permissions = mode])]
    ELSE IF mode \notin CanonicalModes
    THEN [ok |-> TRUE,
          m |-> saveFileSystem([m EXCEPT !.fs =
                   setNode(@, path, [node[1] EXCEPT !.permissions = mode])])]
    ELSE [ok |-> FALSE, m |-> m]

changePermissions(m, path, mode) == changeNode(m, path, mode, getNode(m.fs, path))

\* an inherited member read as an entry of users
InheritedUser(written) ==
    [password |-> written.password, isAdmin |-> UNDEFINED, homeDir |-> UNDEFINED]

\* users[username] is truthy
hasUser(users, username) ==
    username \in DOMAIN users \/ (Len(username) = 1 /\ username[1] \in InheritedNames)

\* users[username]
userAt(fs, username) ==
    IF username \in DOMAIN fs.users THEN fs.users[username]
    ELSE InheritedUser(fs.inherited[username[1]])

\* authenticateUser without the comparison of the password
authenticateUserAnyPassword(fs, username, password) ==
    IF ~hasUser(fs.users, username) THEN FALSE
    ELSE TRUE

authenticateUser(fs, username, password) ==
    IF ~hasUser(fs.users, username) THEN FALSE
    ELSE userAt(fs, username).password = password

\* switchUser without its saveFileSystem
switchUserUnsaved(m, username) ==
    IF ~hasUser(m.fs.users, username) THEN [ok |-> FALSE, m |-> m]
    ELSE [ok |-> TRUE, m |-> [m EXCEPT !.fs.currentUser = username]]

switchUser(m, username) ==
    IF ~hasUser(m.fs.users, username) THEN [ok |-> FALSE, m |-> m]
    ELSE [ok |-> TRUE, m |-> saveFileSystem([m EXCEPT !.fs.currentUser = username])]

bashrcFor(username, t) ==
    [type |-> "file",
     content |-> << StrCat(<<"# ~", ".bashrc for ">>, username),
                    W("# User specific settings"),
                    W("PS1=\"\\[\\033[01;32m\\]\\u@\\h:\\w\\$\\[\\033[00m\\] \"") >>,
     owner |-> username, permissions |-> W("rw-r--r--"), created |-> t, modified |-> t]

\* addUser after createNode: the profile file, then the save
seedProfile(m, username, home, homeDir, t) ==
    IF homeDir # << >> /\ hasChildren(homeDir[1])
    THEN saveFileSystem([m EXCEPT !.fs = setNode(@, home,
             [homeDir[1] EXCEPT !.children = (".bashrc" :> bashrcFor(username, t)) @@ @])])
    ELSE saveFileSystem(m)

addHome(m, username, home, t) == seedProfile(m, username, home, getNode(m.fs, home), t)

addUser(m, username, password, t) ==
    IF hasUser(m.fs.users, username) THEN [ok |-> FALSE, m |-> m]
    ELSE [ok |-> TRUE,
          m |-> addHome(
                   createNode([m EXCEPT !.fs.users =
                                  (username :> [password |-> password, isAdmin |-> FALSE,
                                                homeDir |-> StrCat(<<"", "home", "">>, username)])
                                  @@ @],
                              StrCat(<<"", "home", "">>, username), "directory", EMPTY, t).m,
                   username, StrCat(<<"", "home", "">>, username), t)]

-----------------------------------------------------------------------------
(* commandProcessor.ts: the command history *)

\* command.trim() is empty, for the texts of the input vocabulary
isBlank(command) == command \in {EMPTY, W(" "), W("  ")}

\* addToHistory without the comparison with the last entry
addToHistoryAlways(h, command) ==
    IF ~isBlank(command)
    THEN [commands |-> Append(h.commands, command), position |-> Len(h.commands) + 1]
    ELSE [h EXCEPT !.position = Len(h.commands)]

addToHistory(h, command) ==
    IF ~isBlank(command) /\ (Len(h.commands) = 0 \/ h.commands[Len(h.commands)] # command)
    THEN [commands |-> Append(h.commands, command), position |-> Len(h.commands) + 1]
    ELSE [h EXCEPT !.position = Len(h.commands)]

\* commands[position] || '', position counted from 0
entryOr(h, position) ==
    IF position >= 0 /\ position < Len(h.commands) THEN h.commands[position + 1] ELSE EMPTY

\* getPreviousCommand without the test position > 0
getPreviousCommandUnbounded(h) ==
    IF Len(h.commands) = 0 THEN [value |-> EMPTY, h |-> h]
    ELSE [value |-> entryOr(h, h.position - 1), h |-> [h EXCEPT !.position = @ - 1]]

\* getPreviousCommand: [value, h], the string returned and the history after the call
getPreviousCommand(h) ==
    IF Len(h.commands) = 0 THEN [value |-> EMPTY, h |-> h]
    ELSE IF h.position > 0
    THEN [value |-> entryOr(h, h.position - 1), h |-> [h EXCEPT !.position = @ - 1]]
    ELSE [value |-> entryOr(h, h.position), h |-> h]

getNextCommand(h) ==
    IF h.position < Len(h.commands) - 1
    THEN [value |-> h.commands[h.position + 2], h |-> [h EXCEPT !.position = @ + 1]]
    ELSE [value |-> EMPTY, h |-> [h EXCEPT !.position = Len(h.commands)]]

-----------------------------------------------------------------------------
(* commandProcessor.ts: parsing helpers *)

\* the words of the input vocabulary that toLowerCase changes
LowerOf == "SU" :> "su" @@ "SUDO" :> "sudo" @@ "WHOAMI" :> "whoami" @@ "LS" :> "ls"

toLowerCase(s) == [i \in DOMAIN s |-> IF s[i] \in DOMAIN LowerOf THEN LowerOf[s[i]] ELSE s[i]]

\* the characters after the dash of the option words of the input vocabulary
OptionLetters ==
    "-r" :> {"r"} @@ "-R" :> {"R"} @@ "-f" :> {"f"} @@ "-rf" :> {"r", "f"}
    @@ "-a" :> {"a"} @@ "-l" :> {"l"} @@ "-la" :> {"l", "a"} @@ "-h" :> {"h"}
    @@ "--help" :> {"h", "e", "l", "p", "-"}

\* arg.startsWith('-')
startsWithDash(arg) == arg[1] \in DOMAIN OptionLetters

\* arg.includes(c), for an option word
includes(arg, c) == Len(arg) = 1 /\ arg[1] \in DOMAIN OptionLetters /\ c \in OptionLetters[arg[1]]

\* args[i] of the JavaScript array, and whether it is defined
has(args, i) == i + 1 <= Len(args)
arg(args, i) == args[i + 1]

\* `${args[i]}` in a template
shown(args, i) == IF has(args, i) THEN arg(args, i) ELSE W("undefined")

\* args.slice(i)
slice(args, i) == SubSeq(args, i + 1, Len(args))

Out(lines) == [output |-> lines]

\* a field of a CommandResult: absent (undefined) fields read as the given default
Field(r, f, default) == IF f \in DOMAIN r THEN r[f] ELSE default

\* the last arg of args[1..] that does not start with a dash ('' when there is none)
RECURSIVE lastOperand(_, _)
lastOperand(args, acc) ==
    IF args = << >> THEN acc
    ELSE lastOperand(Tail(args), IF startsWithDash(Head(args)) THEN acc ELSE Head(args))

anyOption(args, letters) ==
    \E i \in 2..Len(args) : startsWithDash(args[i]) /\ \E c \in letters : includes(args[i], c)

-----------------------------------------------------------------------------
(* commandProcessor.ts: the handlers of processCommandInternal.  A handler  *)
(* takes the tokens, the terminal state, m (the loaded object and           *)
(* localStorage) and the clock, and yields [result, m].                     *)

\* the shape most handlers end in: nothing printed on success, one line on failure
respond(op, failure) == [result |-> Out(IF op.ok THEN << >> ELSE <<failure>>), m |-> op.m]

say(line, m) == [result |-> Out(<<line>>), m |-> m]

\* cd without the tests of the target
cdToAnyNode(args, m, resolvedPath, targetNode) ==
    [result |-> [output |-> << >>, newPath |-> resolvedPath], m |-> m]

cdTo(args, m, resolvedPath, targetNode) ==
    IF targetNode = << >>
    THEN say(StrCatAll(<<W("cd: "), shown(args, 1), W(": No such file or directory")>>), m)
    ELSE IF targetNode[1].type # "directory"
    THEN say(StrCatAll(<<W("cd: "), shown(args, 1), W(": Not a directory")>>), m)
    ELSE [result |-> [output |-> << >>, newPath |-> resolvedPath], m |-> m]

cdResolved(args, m, resolvedPath) == cdTo(args, m, resolvedPath, getNode(m.fs, resolvedPath))

cmdCd(args, st, m) ==
    cdResolved(args, m, resolvePath(m.fs, IF has(args, 1) THEN arg(args, 1) ELSE W("~"),
                                    st.currentPath))

cmdMkdir(args, st, m, t) ==
    IF Len(args) < 2 THEN say(W("mkdir: missing operand"), m)
    ELSE respond(createNode(m, resolvePath(m.fs, arg(args, 1), st.currentPath),
                            "directory", EMPTY, t),
                 StrCatAll(<<W("mkdir: cannot create directory '"), arg(args, 1),
                             W("': File exists or invalid path")>>))

cmdTouch(args, st, m, t) ==
    IF Len(args) < 2 THEN say(W("touch: missing file operand"), m)
    ELSE respond(createNode(m, resolvePath(m.fs, arg(args, 1), st.currentPath),
                            "file", << EMPTY >>, t),
                 StrCatAll(<<W("touch: cannot touch '"), arg(args, 1),
                             W("': File exists or invalid path")>>))

\* (node.content || '').split('\n')
contentLines(node) == IF "content" \in DOMAIN node THEN node.content ELSE << EMPTY >>

catNode(args, m, fileNode) ==
    IF fileNode = << >>
    THEN say(StrCatAll(<<W("cat: "), arg(args, 1), W(": No such file or directory")>>), m)
    ELSE IF fileNode[1].type # "directory"
    THEN [result |-> Out(contentLines(fileNode[1])), m |-> m]
    ELSE say(StrCatAll(<<W("cat: "), arg(args, 1), W(": Is a directory")>>), m)

\* a cat that removes the node it was given
cmdCatConsumes(args, st, m) ==
    IF Len(args) < 2 THEN say(W("cat: missing file operand"), m)
    ELSE [result |-> catNode(args, m, getNode(m.fs, resolvePath(m.fs, arg(args, 1),
                                                               st.currentPath))).result,
          m |-> deleteNode(m, resolvePath(m.fs, arg(args, 1), st.currentPath)).m]

cmdCat(args, st, m) ==
    IF Len(args) < 2 THEN say(W("cat: missing file operand"), m)
    ELSE catNode(args, m, getNode(m.fs, resolvePath(m.fs, arg(args, 1), st.currentPath)))

rmNodeAt(args, m, rmPath, rmNodePath, rmNode) ==
    IF rmNode = << >>
    THEN (IF anyOption(args, {"f"}) THEN [result |-> Out(<< >>), m |-> m]
          ELSE say(StrCatAll(<<W("rm: cannot remove '"), rmPath,
                               W("': No such file or directory")>>), m))
    ELSE IF rmNode[1].type = "directory" /\ ~anyOption(args, {"r", "R"})
    THEN say(StrCatAll(<<W("rm: cannot remove '"), rmPath, W("': Is a directory")>>), m)
    ELSE respond(deleteNode(m, rmNodePath),
                 StrCatAll(<<W("rm: cannot remove '"), rmPath, W("'")>>))

rmResolved(args, m, rmPath, rmNodePath) ==
    rmNodeAt(args, m, rmPath, rmNodePath, getNode(m.fs, rmNodePath))

rmOperand(args, st, m, rmPath) ==
    IF rmPath = EMPTY THEN say(W("rm: missing operand"), m)
    ELSE rmResolved(args, m, rmPath, resolvePath(m.fs, rmPath, st.currentPath))

cmdRm(args, st, m) == rmOperand(args, st, m, lastOperand(Tail(args), EMPTY))

\* the tokens of echoText after its first '>' character; a ">>" token leaves one '>'
afterRedirect(words, i) ==
    IF words[i] = W(">>") THEN <<W(">")>> \o SubSeq(words, i + 1, Len(words))
    ELSE SubSeq(words, i + 1, Len(words))

\* In the input vocabulary '>' occurs only in the tokens ">" and ">>".
isRedirect(word) == word \in {W(">"), W(">>")}

\* echoText.indexOf('>') as an index into the words, 0 when there is none
redirectIndexOf(words) ==
    IF \E i \in 1..Len(words) : isRedirect(words[i])
    THEN CHOOSE i \in 1..Len(words) :
             isRedirect(words[i]) /\ \A j \in 1..(i - 1) : ~isRedirect(words[j])
    ELSE 0

\* after a failed create the handler does not return: control falls into case 'rm'
echoCreated(args, st, created) ==
    IF created.ok THEN [result |-> Out(<< >>), m |-> created.m]
    ELSE cmdRm(args, st, created.m)

echoAppendTo(args, st, m, t, content, redirectPath, appendPath, appendNode) ==
    IF appendNode # << >> /\ appendNode[1].type = "file"
    THEN [result |-> Out(<< >>),
          m |-> saveFileSystem([m EXCEPT !.fs = setNode(@, appendPath,
                   [appendNode[1] EXCEPT
                       !.content = contentLines(appendNode[1]) \o <<content>>,
                       !.modified = t])])]
    ELSE IF appendNode = << >>
    THEN echoCreated(args, st, createNode(m, appendPath, "file", <<content>>, t))
    ELSE say(StrCatAll(<<W("echo: "), redirectPath, W(": Is a directory")>>), m)

echoAppendPath(args, st, m, t, content, redirectPath, appendPath) ==
    echoAppendTo(args, st, m, t, content, redirectPath, appendPath,
                 getNode(m.fs, appendPath))

echoAppend(args, st, m, t, content, redirectPath) ==
    echoAppendPath(args, st, m, t, content, redirectPath,
                   resolvePath(m.fs, redirectPath, st.currentPath))

echoWriteIn(m, t, content, redirectPath, writePath, parentNode) ==
    IF parentNode = << >> \/ parentNode[1].type # "directory"
    THEN say(StrCatAll(<<W("echo: "), redirectPath, W(": No such file or directory")>>), m)
    ELSE IF hasChildren(parentNode[1]) /\ hasMember(parentNode[1].children, nameOf(writePath))
    THEN (IF member(parentNode[1].children, nameOf(writePath), m.fs.inherited).type = "file"
          THEN [result |-> Out(<< >>),
                m |-> saveFileSystem([m EXCEPT !.fs = setNode(@, parentPathOf(writePath),
                         [parentNode[1] EXCEPT
                             !.children[nameOf(writePath)].content = <<content>>,
                             !.children[nameOf(writePath)].modified = t])])]
          ELSE say(StrCatAll(<<W("echo: "), redirectPath, W(": Is a directory")>>), m))
    ELSE [result |-> Out(<< >>),
          m |-> saveFileSystem(createNode(m, writePath, "file", <<content>>, t).m)]

echoWritePath(m, t, content, redirectPath, writePath) ==
    echoWriteIn(m, t, content, redirectPath, writePath,
                getNode(m.fs, parentPathOf(writePath)))

echoWrite(st, m, t, content, redirectPath) ==
    echoWritePath(m, t, content, redirectPath,
                  resolvePath(m.fs, redirectPath, st.currentPath))

\* rest: the tokens after the first '>'
echoRedirect(args, st, m, t, content, rest) ==
    IF rest # << >> /\ isRedirect(rest[1])
    THEN echoAppend(args, st, m, t, content,
                    IF rest[1] = W(">") THEN JoinSp(Tail(rest))
                    ELSE JoinSp(<<W(">")>> \o Tail(rest)))
    ELSE echoWrite(st, m, t, content, JoinSp(rest))

echoWords(args, st, m, t, words, redirectIndex) ==
    IF redirectIndex = 0 THEN say(JoinSp(words), m)
    ELSE echoRedirect(args, st, m, t, JoinSp(SubSeq(words, 1, redirectIndex - 1)),
                      afterRedirect(words, redirectIndex))

cmdEcho(args, st, m, t) == echoWords(args, st, m, t, slice(args, 1), redirectIndexOf(slice(args, 1)))

\* the sudo handler buffering args.slice(2)
cmdSudoSkipsToken(args, m) ==
    IF Len(args) > 1
    THEN [result |-> [output |-> <<StrCatAll(<<W("[sudo] password for "),
                                               m.fs.currentUser, W(":")>>)>>,
                      sudoMode |-> TRUE,
                      sudoCommand |-> slice(args, 2)],
          m |-> m]
    ELSE say(W("sudo: command required"), m)

cmdSudo(args, m) ==
    IF Len(args) > 1
    THEN [result |-> [output |-> <<StrCatAll(<<W("[sudo] password for "),
                                               m.fs.currentUser, W(":")>>)>>,
                      sudoMode |-> TRUE,
                      sudoCommand |-> slice(args, 1)],
          m |-> m]
    ELSE say(W("sudo: command required"), m)

\* su that switches at once whoever asks
suToWithoutPassword(m, targetUser) ==
    IF ~hasUser(m.fs.users, targetUser)
    THEN say(StrCatAll(<<W("su: user "), targetUser, W(" does not exist")>>), m)
    ELSE [result |-> [output |-> << >>, newPath |-> userAt(m.fs, targetUser).homeDir],
          m |-> switchUser(m, targetUser).m]

suTo(m, targetUser) ==
    IF ~hasUser(m.fs.users, targetUser)
    THEN say(StrCatAll(<<W("su: user "), targetUser, W(" does not exist")>>), m)
    ELSE IF m.fs.currentUser = ROOTUSER \/ targetUser = m.fs.currentUser
    THEN [result |-> [output |-> << >>, newPath |-> userAt(m.fs, targetUser).homeDir],
          m |-> switchUser(m, targetUser).m]
    ELSE [result |-> [output |-> <<StrCatAll(<<W("Password for "), targetUser, W(":")>>)>>,
                      isPasswordMode |-> TRUE,
                      tempUser |-> targetUser],
          m |-> m]

cmdSu(args, m) == suTo(m, IF has(args, 1) THEN arg(args, 1) ELSE W("root"))

adduserDone(newUsername, added) ==
    IF added.ok
    THEN say(StrCatAll(<<W("Added user "), newUsername, W(". Home directory created at "),
                         <<"", "home", "">>, newUsername>>), added.m)
    ELSE say(StrCatAll(<<W("adduser: The user '"), newUsername, W("' already exists.")>>),
             added.m)

\* adduser without the test of currentUser
cmdAdduserAnyUser(args, m, t) ==
    IF Len(args) < 2 THEN say(W("adduser: Missing username"), m)
    ELSE adduserDone(arg(args, 1),
                     addUser(m, arg(args, 1),
                             IF has(args, 2) THEN arg(args, 2) ELSE arg(args, 1), t))

cmdAdduser(args, m, t) ==
    IF m.fs.currentUser # ROOTUSER
    THEN say(W("adduser: Only root may add a user or group to the system."), m)
    ELSE IF Len(args) < 2 THEN say(W("adduser: Missing username"), m)
    ELSE adduserDone(arg(args, 1),
                     addUser(m, arg(args, 1),
                             IF has(args, 2) THEN arg(args, 2) ELSE arg(args, 1), t))

cmdPasswd(args, m) ==
    IF Len(args) < 2 THEN say(W("passwd: Missing username"), m)
    ELSE IF m.fs.currentUser # ROOTUSER /\ m.fs.currentUser # arg(args, 1)
    THEN say(W("passwd: Only root can change passwords for other users"), m)
    ELSE IF ~hasUser(m.fs.users, arg(args, 1))
    THEN say(StrCatAll(<<W("passwd: user '"), arg(args, 1), W("' does not exist")>>), m)
    ELSE IF Len(args) < 3 THEN say(W("passwd: Missing new password"), m)
    ELSE IF arg(args, 1) \notin DOMAIN m.fs.users
    THEN say(StrCatAll(<<W("Password for "), arg(args, 1), W(" changed")>>),
             saveFileSystem([m EXCEPT
                 !.fs.inherited[arg(args, 1)[1]].password = arg(args, 2)]))
    ELSE say(StrCatAll(<<W("Password for "), arg(args, 1), W(" changed")>>),
             saveFileSystem([m EXCEPT !.fs.users[arg(args, 1)].password = arg(args, 2)]))

cpResolved(args, m, t, sourcePath, destinationPath) ==
    IF getNode(m.fs, sourcePath) = << >>
    THEN say(StrCatAll(<<W("cp: cannot stat '"), arg(args, 1),
                         W("': No such file or directory")>>), m)
    ELSE respond(copyNode(m, sourcePath, destinationPath, t),
                 StrCatAll(<<W("cp: cannot copy '"), arg(args, 1), W("' to '"),
                             arg(args, 2), W("'")>>))

cmdCp(args, st, m, t) ==
    IF Len(args) < 3 THEN say(W("cp: missing file operand"), m)
    ELSE cpResolved(args, m, t, resolvePath(m.fs, arg(args, 1), st.currentPath),
                    resolvePath(m.fs, arg(args, 2), st.currentPath))

mvResolved(args, m, t, mvSourcePath, mvDestinationPath) ==
    IF getNode(m.fs, mvSourcePath) = << >>
    THEN say(StrCatAll(<<W("mv: cannot stat '"), arg(args, 1),
                         W("': No such file or directory")>>), m)
    ELSE respond(moveNode(m, mvSourcePath, mvDestinationPath, t),
                 StrCatAll(<<W("mv: cannot move '"), arg(args, 1), W("' to '"),
                             arg(args, 2), W("'")>>))

cmdMv(args, st, m, t) ==
    IF Len(args) < 3 THEN say(W("mv: missing file operand"), m)
    ELSE mvResolved(args, m, t, resolvePath(m.fs, arg(args, 1), st.currentPath),
                    resolvePath(m.fs, arg(args, 2), st.currentPath))

chmodResolved(args, m, chmodPath) ==
    IF getNode(m.fs, chmodPath) = << >>
    THEN say(StrCatAll(<<W("chmod: cannot access '"), arg(args, 2),
                         W("': No such file or directory")>>), m)
    ELSE respond(changePermissions(m, chmodPath, arg(args, 1)),
                 StrCatAll(<<W("chmod: invalid mode: '"), arg(args, 1), W("'")>>))

cmdChmod(args, st, m) ==
    IF Len(args) < 3 THEN say(W("chmod: missing operand"), m)
    ELSE chmodResolved(args, m, resolvePath(m.fs, arg(args, 2), st.currentPath))

\* name.startsWith('.'), for the names of the input vocabulary and of the default tree
startsWithDot(name) == name \in {".bashrc", ".", "..", ".profile", ".h"}

\* the members of a finite set in some fixed order (the insertion order of Object.entries
\* is not kept by the model)
RECURSIVE SetToSeq(_)
SetToSeq(S) == IF S = {} THEN << >> ELSE LET x == CHOOSE y \in S : TRUE
                                        IN <<x>> \o SetToSeq(S \ {x})

\* s.length
RECURSIVE sumLen(_)
sumLen(s) == IF s = << >> THEN 0 ELSE Len(Head(s)) + sumLen(Tail(s))
strLength(s) == sumLen(s) + Len(s) - 1

RECURSIVE textLength(_)
textLength(lines) ==
    IF lines = << >> THEN -1 ELSE strLength(Head(lines)) + 1 + textLength(Tail(lines))

\* `${date.toLocaleDateString()} ${date.toLocaleTimeString()}`: the rendering of a
\* timestamp is kept as its decimal digits
dateStr(ms) == W("date " \o ToString(ms))

\* `${x}` in a template
template(x) == IF x = UNDEFINED THEN W("undefined") ELSE x

lsLong(name, node) ==
    StrCatAll(<<W(IF node.type = "directory" THEN "d" ELSE "-"),
                template(node.permissions), W(" "), template(node.owner), W(" "),
                W(IF node.type = "file" THEN ToString(textLength(contentLines(node)))
                  ELSE "4096"),
                W(" "), dateStr(node.modified), W(" "),
                W(IF node.type = "directory" THEN name \o "/" ELSE name)>>)

\* ls without the slash after the name of a directory
lsShortNoSlash(name, node) == W(name)

\* name + '/' is kept as one piece
lsShort(name, node) == W(IF node.type = "directory" THEN name \o "/" ELSE name)

cmdLs(args, st, m) ==
    LET showHidden == anyOption(args, {"a"})
        longFormat == anyOption(args, {"l"})
        operand == lastOperand(Tail(args), EMPTY)
        lsPath == IF operand = EMPTY THEN st.currentPath
                  ELSE resolvePath(m.fs, operand, st.currentPath)
        lsNode == getNode(m.fs, lsPath)
        entries == SetToSeq({name \in DOMAIN lsNode[1].children :
                                 showHidden \/ ~startsWithDot(name)})
        long == [i \in DOMAIN entries |-> lsLong(entries[i], lsNode[1].children[entries[i]])]
        short == [i \in DOMAIN entries |-> lsShort(entries[i], lsNode[1].children[entries[i]])]
    IN IF lsNode = << >>
       THEN [result |-> Out(<<StrCatAll(<<W("ls: cannot access '"), shown(args, 1),
                               W("': No such file or directory")>>)>>), m |-> m]
       ELSE IF lsNode[1].type = "file" THEN [result |-> Out(<<shown(args, 1)>>), m |-> m]
       ELSE IF ~hasChildren(lsNode[1]) THEN [result |-> Out(<< >>), m |-> m]
       ELSE IF longFormat THEN [result |-> Out(long), m |-> m]
       ELSE IF entries = << >> THEN [result |-> Out(<<EMPTY>>), m |-> m]
       ELSE [result |-> Out(<<join(short, W("  "))>>), m |-> m]

cmdApt(args, m) ==
    LET aptCommand == IF has(args, 1) THEN arg(args, 1) ELSE EMPTY
    IN IF aptCommand = W("update")
       THEN [result |-> Out(<<W("Reading package lists... Done"),
                              W("Building dependency tree... Done"),
                              W("All packages are up to date.")>>), m |-> m]
       ELSE IF aptCommand = W("upgrade")
       THEN [result |-> Out(<<W("Reading package lists... Done"),
                              W("Building dependency tree... Done"),
                              W("Calculating upgrade... Done"),
                              W("0 upgraded, 0 newly installed, 0 to remove and 0 not upgraded.")>>),
             m |-> m]
       ELSE IF aptCommand = W("install")
       THEN (IF Len(args) < 3 THEN [result |-> Out(<<W("apt: Missing package name")>>), m |-> m]
             ELSE [result |-> Out(<<StrCatAll(<<W("Simulating installation of "),
                                                         join(slice(args, 2), W(", ")),
                                                         W("...")>>),
                                    W("Done!")>>), m |-> m])
       ELSE [result |-> Out(<<W("apt-get commands:"),
                              W("  update - Retrieve new lists of packages"),
                              W("  upgrade - Perform an upgrade"),
                              W("  install - Install packages")>>), m |-> m]

\* line.includes(pattern): a pattern is found in a line when it is one of the line's
\* pieces, or when the pair is listed here
KnownSubstrings ==
    {<<"ubuntu-terminal", "ubuntu">>, <<"127.0.0.1 localhost", "localhost">>,
     <<"127.0.1.1 ubuntu-terminal", "ubuntu">>, <<"Welcome to Ubuntu Terminal!", "Welcome">>}

lineIncludes(line, pattern) ==
    /\ Len(pattern) = 1
    /\ \E i \in DOMAIN line : line[i] = pattern[1] \/ <<line[i], pattern[1]>> \in KnownSubstrings

cmdGrep(args, st, m) ==
    IF Len(args) < 3 THEN [result |-> Out(<<W("grep: missing pattern or file")>>), m |-> m]
    ELSE LET pattern == arg(args, 1)
             grepPath == resolvePath(m.fs, arg(args, 2), st.currentPath)
             grepNode == getNode(m.fs, grepPath)
             matchingLines == SelectSeq(contentLines(grepNode[1]),
                                        LAMBDA line : lineIncludes(line, pattern))
         IN IF grepNode = << >>
            THEN [result |-> Out(<<StrCatAll(<<W("grep: "), arg(args, 2),
                                    W(": No such file or directory")>>)>>), m |-> m]
            ELSE IF grepNode[1].type # "file"
            THEN [result |-> Out(<<StrCatAll(<<W("grep: "), arg(args, 2),
                                    W(": Is a directory")>>)>>), m |-> m]
            ELSE [result |-> Out(IF Len(matchingLines) > 0 THEN matchingLines ELSE <<EMPTY>>),
                  m |-> m]

cmdUname(args, m) ==
    IF \E i \in 1..Len(args) : args[i] = W("-a")
    THEN [result |-> Out(<<<<"Linux terminal-simulation 5.15.0-56-generic #1 SMP Ubuntu 22.04.1 LTS x86_64 GNU", "Linux">>>>),
          m |-> m]
    ELSE [result |-> Out(<<W("Linux")>>), m |-> m]

cmdDf(m) ==
    [result |-> Out(<<W("Filesystem     1K-blocks    Used Available Use% Mounted on"),
                      <<"udev             8151440       0   8151440   0% ", "dev">>,
                      <<"tmpfs            1638624    1852   1636772   1% ", "run">>,
                      <<"", "dev", "sda1      165735648 5121324 151918800   4% ", "">>>>),
     m |-> m]

\* rnd is the value of Math.floor(Math.random() * 9000) + 1000
cmdPs(m, rnd) ==
    [result |-> Out(<<W("PID TTY          TIME CMD"),
                      <<"  1 pts", "0    00:00:00 bash">>,
                      <<"  " \o ToString(rnd) \o " pts", "0    00:00:00 ps">>>>),
     m |-> m]

cmdTop(m, t, rnd) ==
    [result |-> Out(<<StrCatAll(<<W("top - "), dateStr(t),
                                  W(" up 2 days,  3:12,  1 user,  load average: 0.00, 0.01, 0.05")>>),
                      W("Tasks:   3 total,   1 running,   2 sleeping,   0 stopped,   0 zombie"),
                      W("%Cpu(s):  2.0 us,  1.0 sy,  0.0 ni, 97.0 id,  0.0 wa,  0.0 hi,  0.0 si,  0.0 st"),
                      <<"MiB Mem :  16000.0 total,  14000.0 free,   1200.0 used,    800.0 buff", "cache">>,
                      W("MiB Swap:   2048.0 total,   2048.0 free,      0.0 used.  14000.0 avail Mem"),
                      EMPTY,
                      W("  PID USER      PR  NI    VIRT    RES    SHR S  %CPU  %MEM     TIME+ COMMAND"),
                      W("    1 root      20   0   10000   2400   1600 S   0.0   0.0   0:00.10 init"),
                      StrCatAll(<<W(ToString(rnd) \o " "), m.fs.currentUser,
                                  W("      20   0   12000   3000   2000 R   0.7   0.0   0:00.01 top")>>),
                      W("(press q to quit)")>>),
     m |-> m]

manPages ==
    "ls" :> <<W("NAME"), W("       ls - list directory contents"), EMPTY,
              W("SYNOPSIS"), W("       ls [OPTION]... [FILE]..."), EMPTY,
              W("DESCRIPTION"),
              W("       List information about the FILEs (the current directory by default)."),
              W("       Sort entries alphabetically."), EMPTY,
              W("       -a, --all"),
              W("              do not ignore entries starting with ."), EMPTY,
              W("       -l     use a long listing format")>>
    @@ "cd" :> <<W("NAME"), W("       cd - change the working directory"), EMPTY,
                 W("SYNOPSIS"), W("       cd [dir]"), EMPTY,
                 W("DESCRIPTION"), W("       Change the shell working directory."), EMPTY,
                 W("       Change the current directory to DIR. The default DIR is the value of the"),
                 W("       HOME shell variable.")>>

cmdMan(args, m) ==
    IF Len(args) < 2 THEN [result |-> Out(<<W("What manual page do you want?")>>), m |-> m]
    ELSE LET manCommand == toLowerCase(arg(args, 1))
         IN IF Len(manCommand) = 1 /\ manCommand[1] \in DOMAIN manPages
            THEN [result |-> Out(manPages[manCommand[1]]), m |-> m]
            ELSE [result |-> Out(<<StrCat(W("No manual entry for "), manCommand)>>), m |-> m]

cmdHelp(m) ==
    [result |-> Out(<<W("Available commands:"),
                      W("File operations: ls, cd, mkdir, touch, cat, rm, cp, mv, pwd, chmod"),
                      W("System commands: clear, whoami, su, sudo, adduser, passwd"),
                      W("Package management: apt-get, apt"),
                      W("Text processing: echo, grep"),
                      W("Information: date, uname, df, ps, top, man, help"),
                      EMPTY,
                      W("Use man <command> for more information on specific commands.")>>),
     m |-> m]

cmdDefault(args, cmd, m) ==
    IF has(args, 1) /\ arg(args, 1) \in {W("--help"), W("-h")}
    THEN [result |-> Out(<<StrCatAll(<<W("Help for "), cmd,
                            W(" would be displayed here.")>>)>>), m |-> m]
    ELSE [result |-> Out(<<StrCat(cmd, W(": command not found"))>>), m |-> m]

-----------------------------------------------------------------------------
(* commandProcessor.ts: processCommandInternal and processCommand.  Both    *)
(* take localStorage and the default object and yield                       *)
(* [result, ls, dflt]: the CommandResult and the two after the call.        *)

dispatch(cmd, args, st, m, t, rnd) ==
    IF cmd = W("sudo") THEN cmdSudo(args, m)
    ELSE IF cmd = W("pwd") THEN [result |-> Out(<<st.currentPath>>), m |-> m]
    ELSE IF cmd = W("cd") THEN cmdCd(args, st, m)
    ELSE IF cmd = W("ls") THEN cmdLs(args, st, m)
    ELSE IF cmd = W("mkdir") THEN cmdMkdir(args, st, m, t)
    ELSE IF cmd = W("touch") THEN cmdTouch(args, st, m, t)
    ELSE IF cmd = W("cat") THEN cmdCat(args, st, m)
    ELSE IF cmd = W("echo") THEN cmdEcho(args, st, m, t)
    ELSE IF cmd = W("rm") THEN cmdRm(args, st, m)
    ELSE IF cmd = W("clear") THEN [result |-> Out(<<W("CLEAR_TERMINAL")>>), m |-> m]
    ELSE IF cmd = W("whoami") THEN [result |-> Out(<<m.fs.currentUser>>), m |-> m]
    ELSE IF cmd = W("su") THEN cmdSu(args, m)
    ELSE IF cmd = W("adduser") THEN cmdAdduser(args, m, t)
    ELSE IF cmd = W("passwd") THEN cmdPasswd(args, m)
    ELSE IF cmd \in {W("apt"), W("apt-get")} THEN cmdApt(args, m)
    ELSE IF cmd = W("grep") THEN cmdGrep(args, st, m)
    ELSE IF cmd = W("date") THEN [result |-> Out(<<dateStr(t)>>), m |-> m]
    ELSE IF cmd = W("uname") THEN cmdUname(args, m)
    ELSE IF cmd = W("df") THEN cmdDf(m)
    ELSE IF cmd = W("ps") THEN cmdPs(m, rnd)
    ELSE IF cmd = W("top") THEN cmdTop(m, t, rnd)
    ELSE IF cmd = W("cp") THEN cmdCp(args, st, m, t)
    ELSE IF cmd = W("mv") THEN cmdMv(args, st, m, t)
    ELSE IF cmd = W("chmod") THEN cmdChmod(args, st, m)
    ELSE IF cmd = W("man") THEN cmdMan(args, m)
    ELSE IF cmd = W("help") THEN cmdHelp(m)
    ELSE IF cmd = W("exit") THEN [result |-> Out(<<W("Exiting terminal session...")>>), m |-> m]
    ELSE cmdDefault(args, cmd, m)

\* a write to the object load returned is a write to defaultFileSystem when load
\* returned that object
finish(done, ls, dflt) ==
    [result |-> done.result,
     ls |-> done.m.ls,
     dflt |-> defaultAfter(ls, dflt, done.m.fs)]

\* command is the token sequence of the line
processCommandInternal(command, st, ls, dflt, t, rnd) ==
    IF command = << >> THEN [result |-> Out(<< >>), ls |-> ls, dflt |-> dflt]
    ELSE finish(dispatch(toLowerCase(command[1]), command, st,
                         [fs |-> loadFileSystem(ls, dflt), ls |-> ls], t, rnd),
                ls, dflt)

\* a JavaScript string is truthy when it is not empty; password is << >> when the
\* argument is not passed and <<text>> when it is
truthy(password) == password # << >> /\ password[1] # EMPTY

\* the sudo branch without fs.currentUser = originalUser and its save
sudoRestoreSkipped(fs, originalUser, ls, inner) ==
    [result |-> [sudoMode |-> FALSE, sudoCommand |-> << >>] @@ inner.result,
     ls |-> inner.ls,
     dflt |-> inner.dflt]

\* after the buffered command: the object loaded before it gets its user back and is saved
sudoRestore(fs, originalUser, ls, inner) ==
    [result |-> [sudoMode |-> FALSE, sudoCommand |-> << >>] @@ inner.result,
     ls |-> <<stringified([fs EXCEPT !.currentUser = originalUser])>>,
     dflt |-> IF loadedDefault(ls)
              THEN [fs EXCEPT !.currentUser = originalUser,
                              !.inherited = inner.dflt.inherited]
              ELSE inner.dflt]

\* fs.currentUser = 'root', save, run the buffered command
sudoRun(st, fs, ls, dflt, t, rnd) ==
    sudoRestore([fs EXCEPT !.currentUser = ROOTUSER], fs.currentUser, ls,
                processCommandInternal(st.sudoCommand, st,
                                       <<stringified([fs EXCEPT !.currentUser = ROOTUSER])>>,
                                       dflt, t, rnd))

loginDone(st, ls, dflt, switched) ==
    [result |-> [output |-> <<StrCatAll(<<W("Welcome, "), st.tempUser, W("!")>>)>>,
                 newPath |-> IF st.tempUser \in DOMAIN switched.m.fs.users
                                /\ switched.m.fs.users[st.tempUser].homeDir # EMPTY
                             THEN switched.m.fs.users[st.tempUser].homeDir
                             ELSE StrCat(<<"", "home", "">>, st.tempUser),
                 isPasswordMode |-> FALSE, tempUser |-> EMPTY],
     ls |-> switched.m.ls,
     dflt |-> defaultAfter(ls, dflt, switched.m.fs)]

\* processCommand once the store has been loaded
processLoaded(command, st, password, fs, ls, dflt, t, rnd) ==
    IF st.sudoMode /\ truthy(password)
    THEN (IF authenticateUser(fs, ROOTUSER, password[1])
          THEN sudoRun(st, fs, ls, dflt, t, rnd)
          ELSE [result |-> [output |-> <<W("Sorry, try again.")>>,
                            sudoMode |-> FALSE, sudoCommand |-> << >>],
                ls |-> ls, dflt |-> dflt])
    ELSE IF st.isPasswordMode /\ truthy(password)
    THEN (IF authenticateUser(fs, st.tempUser, password[1])
          THEN loginDone(st, ls, dflt, switchUser([fs |-> fs, ls |-> ls], st.tempUser))
          ELSE [result |-> [output |-> <<W("Authentication failed.")>>,
                            isPasswordMode |-> FALSE, tempUser |-> EMPTY],
                ls |-> ls, dflt |-> dflt])
    ELSE processCommandInternal(command, st, ls, dflt, t, rnd)

processCommand(command, st, password, ls, dflt, t, rnd) ==
    processLoaded(command, st, password, loadFileSystem(ls, dflt), ls, dflt, t, rnd)

-----------------------------------------------------------------------------
(* commandProcessor.ts: autocompletion *)

AVAILABLE_COMMANDS ==
    <<
      "ls", "cd", "pwd", "mkdir", "touch", "cat", "rm", "echo", "clear", "sudo",
      "su", "whoami", "adduser", "passwd", "apt", "apt-get", "grep", "date", "uname",
      "df", "ps", "top", "man", "cp", "mv", "chmod", "find", "help", "exit" >>

\* The pairs <<word, prefix>> with word.startsWith(prefix), for the command names and the
\* file names in use and the proper prefixes the input vocabulary holds.
KnownPrefixes ==
    {
      <<".bashrc", ".">>, <<"apt", "ap">>, <<"apt-get", "ap">>, <<"cat", "c">>,
      <<"cat", "ca">>, <<"cd", "c">>, <<"chmod", "c">>, <<"clear", "c">>,
      <<"cp", "c">>, <<"data", "d">>, <<"data", "da">>, <<"date", "d">>,
      <<"date", "da">>, <<"df", "d">>, <<"find", "f">>, <<"find", "fi">>,
      <<"ls", "l">>, <<"su", "s">>, <<"sudo", "s">>, <<"welcome.txt", "w">>,
      <<"whoami", "w">> }

\* name.startsWith(token), name a command name or the name of a child
startsWith(name, token) ==
    Len(token) = 1 /\ (name = token[1] \/ <<name, token[1]>> \in KnownPrefixes)

pathCommands == { W(c) : c \in {"cd", "ls", "cat", "rm", "mkdir", "touch", "cp", "mv"} }

\* the option pushed for a child: command, space, name, and a slash for a directory
pathOption(cmd, name, node) ==
    IF node.type = "directory" THEN StrCat(JoinSp(<<cmd, W(name)>>), SLASH)
    ELSE JoinSp(<<cmd, W(name)>>)

pathOptions(args, currentNode) ==
    IF currentNode = << >> \/ ~hasChildren(currentNode[1]) THEN << >>
    ELSE SetToSeq({ pathOption(args[1], name, currentNode[1].children[name]) :
                    name \in { n \in DOMAIN currentNode[1].children : startsWith(n, args[2]) } })

\* input is the token sequence of the text in the input field, << >> when it is blank
getAutocompleteOptions(input, currentPath, fs) ==
    IF input = << >> THEN << >>
    ELSE IF Len(input) = 1
    THEN SelectSeq([i \in DOMAIN AVAILABLE_COMMANDS |-> W(AVAILABLE_COMMANDS[i])],
                   LAMBDA cmd : startsWith(cmd[1], input[1]))
    ELSE IF input[1] \in pathCommands /\ Len(input) = 2
    THEN pathOptions(input, getNode(fs, currentPath))
    ELSE << >>

-----------------------------------------------------------------------------
(* Terminal.tsx: the Enter key *)

initialTerminalState ==
    [currentPath |-> <<"", "home", "ubuntu">>,
     isPasswordMode |-> FALSE, tempUser |-> EMPTY,
     sudoMode |-> FALSE, sudoCommand |-> << >>]

\* a setState that keeps the previous mode fields when the result has none
afterResultKeepsMode(prev, result) ==
    [currentPath |-> IF Field(result, "newPath", EMPTY) \notin {EMPTY, UNDEFINED}
                     THEN result.newPath
                     ELSE prev.currentPath,
     isPasswordMode |-> Field(result, "isPasswordMode", prev.isPasswordMode),
     tempUser |-> Field(result, "tempUser", prev.tempUser),
     sudoMode |-> Field(result, "sudoMode", prev.sudoMode),
     sudoCommand |-> Field(result, "sudoCommand", prev.sudoCommand)]

\* the setState of handleKeyDown: absent and falsy fields of the result fall back
afterResult(prev, result) ==
    [currentPath |-> IF Field(result, "newPath", EMPTY) \notin {EMPTY, UNDEFINED}
                     THEN result.newPath
                     ELSE prev.currentPath,
     isPasswordMode |-> Field(result, "isPasswordMode", FALSE),
     tempUser |-> Field(result, "tempUser", EMPTY),
     sudoMode |-> Field(result, "sudoMode", FALSE),
     sudoCommand |-> Field(result, "sudoCommand", << >>)]

\* the values Math.floor(Math.random() * 9000) + 1000 is drawn from in the model
RandomPids(line) ==
    IF \E i \in 1..Len(line) : toLowerCase(line[i]) \in {W("ps"), W("top")}
    THEN {1000, 9999} ELSE {1000}

\* the handler's setState and the writes processCommand made
Returned(line, r) ==
    /\ localStorage' = r.ls
    /\ defaultFileSystem' = r.dflt
    /\ state' = afterResult(state, r.result)
    /\ lastResult' = r.result
    /\ lastLine' = line
    /\ now' = now + 1
    /\ UNCHANGED <<call, returned, otherTab>>

\* Enter while isPasswordMode or sudoMode: the line is passed as the password
SubmitPassword(line, rnd) ==
    /\ state.isPasswordMode \/ state.sudoMode
    /\ UNCHANGED commandHistory
    /\ Returned(line, processCommand(line, state, <<JoinSp(line)>>, localStorage,
                                     defaultFileSystem, now + 1, rnd))

\* Enter otherwise: the line is a command
SubmitCommand(line, rnd) ==
    /\ ~(state.isPasswordMode \/ state.sudoMode)
    /\ commandHistory' = IF line # << >> THEN addToHistory(commandHistory, JoinSp(line))
                          ELSE commandHistory
    /\ Returned(line, processCommand(line, state, << >>, localStorage,
                                     defaultFileSystem, now + 1, rnd))

Init ==
    /\ localStorage = << >>
    /\ defaultFileSystem = DefaultFS
    /\ state = initialTerminalState
    /\ now = 0
    /\ lastLine = << >>
    /\ lastResult = Out(<< >>)
    /\ call = [fn |-> "none"]
    /\ returned = << >>
    /\ commandHistory = [commands |-> << >>, position |-> -1]
    /\ otherTab = [defaultFileSystem |-> DefaultFS, state |-> initialTerminalState,
                   commandHistory |-> [commands |-> << >>, position |-> -1]]

-----------------------------------------------------------------------------
(* The lines typed *)

L(words) == [i \in DOMAIN words |-> W(words[i])]
Abs(segments) == <<"">> \o segments

\* what is typed at a password prompt: nothing, the passwords in use, other text
PasswordLines ==
    { << >>, L(<<"toor">>), L(<<"ubuntu">>), L(<<"bob">>), L(<<"pw">>),
      L(<<"not", "toor">>) }

SessionLines ==
    { << >>,
      L(<<"sudo">>),
      <<W("sudo"), W("rm"), W("-r"), Abs(<<"etc">>)>>,
      <<W("sudo"), W("touch"), Abs(<<"etc", "motd">>)>>,
      <<W("sudo"), W("cd"), Abs(<<"etc">>)>>,
      L(<<"sudo", "su">>),
      L(<<"sudo", "su", "ubuntu">>),
      L(<<"sudo", "adduser", "bob">>),
      L(<<"sudo", "passwd", "root", "pw">>),
      L(<<"SUDO", "sudo", "whoami">>),
      L(<<"su">>),
      L(<<"SU", "root">>),
      L(<<"su", "ubuntu">>),
      L(<<"su", "bob">>),
      L(<<"su", "nouser">>),
      L(<<"su", "constructor">>),
      L(<<"adduser", "bob">>),
      L(<<"passwd", "ubuntu", "pw">>),
      L(<<"passwd", "root", "pw">>),
      L(<<"whoami">>),
      <<W("cd"), Abs(<<"etc">>)>>,
      <<W("rm"), W("-r"), Abs(<<"home", "ubuntu">>)>> }

\* The number of lines a session of Spec may hold.
MaxLines == 5

Password ==
    /\ now < MaxLines
    /\ \E line \in PasswordLines : \E rnd \in RandomPids(line) : SubmitPassword(line, rnd)

Command ==
    /\ now < MaxLines
    /\ \E line \in SessionLines : \E rnd \in RandomPids(line) : SubmitCommand(line, rnd)

Next == Password \/ Command

Spec == Init /\ [][Next]_vars

TreeLines ==
    { L(<<"mkdir", "d">>),
      L(<<"touch", "f">>),
      <<W("touch"), Abs(<<"etc", "hostname", "x">>)>>,
      <<W("mkdir"), Abs(<<"nodir", "x">>)>>,
      L(<<"echo", "hi", ">", "f">>),
      <<W("echo"), W("hi"), W(">"), Abs(<<"tmp">>)>>,
      <<W("echo"), W("hi"), W(">"), SLASH>>,
      <<W("echo"), W("hi"), W(">"), Abs(<<"etc", "hostname", "x">>)>>,
      L(<<"echo", "hi", ">>", "welcome.txt">>),
      <<W("echo"), W("hi"), W(">>"), Abs(<<"etc", "hostname", "x">>)>>,
      <<W("cp"), Abs(<<"etc">>), Abs(<<"tmp">>)>>,
      <<W("cp"), Abs(<<"home">>), Abs(<<"home", "ubuntu">>)>>,
      <<W("cp"), Abs(<<"etc">>), Abs(<<"etc", "hostname">>)>>,
      <<W("cp"), W("welcome.txt"), Abs(<<"etc", "hostname", "x">>)>>,
      <<W("cp"), SLASH, Abs(<<"tmp", "x">>)>>,
      <<W("mv"), Abs(<<"etc">>), Abs(<<"tmp">>)>>,
      <<W("mv"), SLASH, Abs(<<"tmp", "y">>)>>,
      <<W("mv"), Abs(<<"home", "ubuntu">>), Abs(<<"tmp">>)>>,
      <<W("rm"), W("-r"), SLASH>>,
      <<W("rm"), W("-r"), Abs(<<"home">>)>>,
      <<W("rm"), W("-rf"), Abs(<<"home", "ubuntu">>)>>,
      L(<<"rm", "welcome.txt">>),
      <<W("rm"), Abs(<<"tmp">>)>>,
      L(<<"rm", "nofile">>),
      L(<<"rm", "-f", "nofile">>),
      L(<<"cp", "constructor", "x">>),
      L(<<"rm", "constructor">>),
      L(<<"mkdir", "constructor">>),
      <<W("cd"), Abs(<<"tmp">>)>>,
      L(<<"su">>),
      L(<<"adduser", "bob">>) }

TreePasswordLines == { L(<<"toor">>), L(<<"bob">>) }

\* The number of lines a session of TreeSpec may hold.
MaxTreeLines == 4

TreePassword ==
    /\ now < MaxTreeLines
    /\ \E line \in TreePasswordLines : \E rnd \in RandomPids(line) : SubmitPassword(line, rnd)

TreeCommand ==
    /\ now < MaxTreeLines
    /\ \E line \in TreeLines : \E rnd \in RandomPids(line) : SubmitCommand(line, rnd)

TreeNext == TreePassword \/ TreeCommand

TreeSpec == Init /\ [][TreeNext]_vars

-----------------------------------------------------------------------------
(* Sessions of echo with a redirection, cat and mkdir *)

\* `echo <text> > <path>` and `echo <text> >> <path>` as typed
echoLine(text, redirect, path) == <<W("echo")>> \o text \o <<W(redirect), path>>

EchoTexts == { << >>, L(<<"hi">>), L(<<"yo">>), L(<<"a", "b">>) }

EchoTargets ==
    { W("f"), W("d"), W("welcome.txt"), Abs(<<"tmp">>), W("constructor"),
      Abs(<<"nodir", "f">>) }

EchoLines ==
    { echoLine(text, redirect, path) :
          text \in EchoTexts, redirect \in {">", ">>"}, path \in EchoTargets }
    \cup { L(<<"mkdir", "d">>), L(<<"cat", "f">>), L(<<"cat", "welcome.txt">>),
           L(<<"cat", "d">>), <<W("cd"), Abs(<<"tmp">>)>> }
    \cup { L(<<"echo", "hi">>), L(<<"echo", "-rf">>), L(<<"echo", "-r", ">", "f">>),
           <<W("echo"), W("hi"), W(">>"), Abs(<<"nodir", "f">>), W("welcome.txt")>>,
           <<W("echo"), W("-r"), W("hi"), W(">>"), Abs(<<"nodir", "f">>), W("d")>> }

\* The number of lines a session of EchoSpec may hold.
MaxEchoLines == 3

EchoCommand ==
    /\ now < MaxEchoLines
    /\ \E line \in EchoLines : \E rnd \in RandomPids(line) : SubmitCommand(line, rnd)

EchoNext == EchoCommand

EchoSpec == Init /\ [][EchoNext]_vars

-----------------------------------------------------------------------------
(* commandProcessor.ts called directly: the history functions, as the Enter *)
(* and arrow keys of Terminal call them                                     *)

Unhistoried ==
    UNCHANGED <<localStorage, defaultFileSystem, state, now, lastLine, lastResult, otherTab>>

CallAddToHistory(command) ==
    /\ call' = [fn |-> "addToHistory", command |-> command]
    /\ returned' = << >>
    /\ commandHistory' = addToHistory(commandHistory, command)
    /\ Unhistoried

CallGetPreviousCommand ==
    /\ call' = [fn |-> "getPreviousCommand"]
    /\ returned' = getPreviousCommand(commandHistory).value
    /\ commandHistory' = getPreviousCommand(commandHistory).h
    /\ Unhistoried

CallGetNextCommand ==
    /\ call' = [fn |-> "getNextCommand"]
    /\ returned' = getNextCommand(commandHistory).value
    /\ commandHistory' = getNextCommand(commandHistory).h
    /\ Unhistoried

\* the texts handed to addToHistory: commands, a command with a space after it, blanks
HistoryTexts == { W("ls"), W("pwd"), W("ls "), EMPTY, W("  ") }

\* The number of entries a history of HistorySpec may hold.
MaxHistory == 4

Add ==
    /\ Len(commandHistory.commands) < MaxHistory
    /\ \E command \in HistoryTexts : CallAddToHistory(command)

Previous == CallGetPreviousCommand

NextCommand == CallGetNextCommand

HistoryNext == Add \/ Previous \/ NextCommand

HistorySpec == Init /\ [][HistoryNext]_vars

-----------------------------------------------------------------------------
(* Sessions in which the browser loses the stored value: the site data are  *)
(* cleared, or the value is overwritten with text that is no JSON           *)

Unsubmitted == UNCHANGED <<defaultFileSystem, state, now, lastLine, lastResult, call,
                           returned, commandHistory, otherTab>>

\* localStorage.getItem(FS_STORAGE_KEY) is to return null from now on
ClearStorage ==
    /\ localStorage # << >>
    /\ localStorage' = << >>
    /\ Unsubmitted

\* JSON.parse(stored) is to throw from now on
CorruptStorage ==
    /\ localStorage # <<Unparsable>>
    /\ localStorage' = <<Unparsable>>
    /\ Unsubmitted

LossLines ==
    { L(<<"mkdir", "d">>), L(<<"touch", "f">>), L(<<"rm", "welcome.txt">>),
      L(<<"passwd", "ubuntu", "pw">>), L(<<"echo", "hi", ">", "welcome.txt">>),
      L(<<"ls">>), L(<<"whoami">>), <<W("cd"), Abs(<<"tmp">>)>> }

\* The number of lines a session of LossSpec may hold.
MaxLossLines == 3

LossCommand ==
    /\ now < MaxLossLines
    /\ \E line \in LossLines : \E rnd \in RandomPids(line) : SubmitCommand(line, rnd)

LossNext == LossCommand \/ ClearStorage \/ CorruptStorage

LossSpec == Init /\ [][LossNext]_vars

-----------------------------------------------------------------------------
(* Two tabs of one browser: each has its own module-level objects and its   *)
(* own Terminal, both read and write the one value under FS_STORAGE_KEY.    *)
(* A handler runs to completion, so a step is one Enter in the tab in front *)

\* the user brings the other tab to the front
SwitchTab ==
    /\ defaultFileSystem' = otherTab.defaultFileSystem
    /\ state' = otherTab.state
    /\ commandHistory' = otherTab.commandHistory
    /\ otherTab' = [defaultFileSystem |-> defaultFileSystem, state |-> state,
                    commandHistory |-> commandHistory]
    /\ UNCHANGED <<localStorage, now, lastLine, lastResult, call, returned>>

\* the names the two tabs create in /home/ubuntu
TabNames == {"a", "b", "c"}

TabLines ==
    { L(<<"touch", n>>) : n \in TabNames } \cup { L(<<"mkdir", n>>) : n \in TabNames }
    \cup { L(<<"sudo", "touch", "s">>), L(<<"ls">>) }

TabPasswordLines == { L(<<"toor">>), L(<<"pw">>) }

\* The number of lines the two tabs may hold together.
MaxTabLines == 4

TabPassword ==
    /\ now < MaxTabLines
    /\ \E line \in TabPasswordLines : SubmitPassword(line, 1000)

TabCommand ==
    /\ now < MaxTabLines
    /\ \E line \in TabLines : SubmitCommand(line, 1000)

TabsNext == TabPassword \/ TabCommand \/ SwitchTab

TabsSpec == Init /\ [][TabsNext]_vars

-----------------------------------------------------------------------------
(* Sessions of mv: onto another name, into a directory, onto the source     *)
(* itself and into the source                                               *)

MoveLines ==
    { L(<<"mkdir", "d">>), <<W("touch"), <<"d", "f">>>>, L(<<"cd", "d">>), L(<<"mv">>),
      L(<<"mv", "welcome.txt", "welcome.txt">>), L(<<"mv", "welcome.txt", "w">>),
      L(<<"mv", "welcome.txt", "d">>), L(<<"mv", "w", "welcome.txt">>),
      L(<<"mv", "d", "d">>), <<W("mv"), W("d"), <<"d", "x">>>>, L(<<"mv", "d", "e">>),
      <<W("mv"), W("d"), Abs(<<"tmp">>)>>, L(<<"mv", "nofile", "x">>),
      <<W("mv"), W("welcome.txt"), Abs(<<"nodir", "x">>)>>,
      <<W("mv"), Abs(<<"home", "ubuntu">>), Abs(<<"tmp">>)>>,
      L(<<"mv", ".", "..">>) }

\* The number of lines a session of MoveSpec may hold.
MaxMoveLines == 3

MoveCommand ==
    /\ now < MaxMoveLines
    /\ \E line \in MoveLines : SubmitCommand(line, 1000)

MoveNext == MoveCommand

MoveSpec == Init /\ [][MoveNext]_vars

-----------------------------------------------------------------------------
(* Sessions of su, sudo, adduser and passwd: who the current user becomes   *)

IdentityLines ==
    { L(<<"su">>), L(<<"SU", "root">>), L(<<"su", "ubuntu">>), L(<<"su", "bob">>),
      L(<<"su", "constructor">>), L(<<"su", "nouser">>),
      L(<<"adduser", "bob">>), L(<<"passwd", "root", "pw">>),
      L(<<"passwd", "constructor", "pw">>),
      L(<<"sudo", "su">>), L(<<"sudo", "su", "bob">>), L(<<"sudo", "whoami">>) }

IdentityPasswordLines == { << >>, L(<<"toor">>), L(<<"pw">>), L(<<"bob">>) }

\* The number of lines a session of IdentitySpec may hold.
MaxIdentityLines == 6

IdentityPassword ==
    /\ now < MaxIdentityLines
    /\ \E line \in IdentityPasswordLines : SubmitPassword(line, 1000)

IdentityCommand ==
    /\ now < MaxIdentityLines
    /\ \E line \in IdentityLines : SubmitCommand(line, 1000)

IdentityNext == IdentityPassword \/ IdentityCommand

IdentitySpec == Init /\ [][IdentityNext]_vars

-----------------------------------------------------------------------------
(* Sessions of the commands that only read, of commands given no operand or *)
(* a path that does not resolve, and of a few that write                    *)

ReadingLines ==
    { << >>, L(<<"pwd">>), L(<<"cd">>), <<W("cd"), Abs(<<"tmp">>)>>, L(<<"cd", "nodir">>),
      L(<<"ls">>), L(<<"LS", "-la">>), L(<<"ls", "nodir">>),
      L(<<"cat">>), L(<<"cat", "welcome.txt">>), L(<<"cat", "nofile">>),
      L(<<"whoami">>), L(<<"grep">>), L(<<"grep", "Welcome", "welcome.txt">>),
      L(<<"grep", "x", "nofile">>), L(<<"echo">>), L(<<"echo", "hi">>),
      L(<<"help">>), L(<<"man">>), L(<<"man", "ls">>), L(<<"date">>),
      L(<<"uname">>), L(<<"uname", "-a">>), L(<<"df">>), L(<<"ps">>), L(<<"top">>),
      L(<<"apt">>), L(<<"apt", "update">>), L(<<"apt", "install">>),
      L(<<"apt-get", "install", "x">>), L(<<"exit">>), L(<<"clear">>),
      L(<<"foo">>), L(<<"foo", "-h">>) }

FailingLines ==
    { L(<<"mkdir">>), L(<<"touch">>), L(<<"rm">>), L(<<"rm", "nofile">>),
      L(<<"rm", "-r">>), L(<<"cp">>), L(<<"cp", "nofile", "x">>), L(<<"mv">>),
      L(<<"mv", "nofile", "x">>), L(<<"chmod">>), L(<<"chmod", "755", "nofile">>),
      L(<<"su", "nouser">>), L(<<"passwd">>), L(<<"passwd", "nouser">>),
      L(<<"passwd", "ubuntu">>), L(<<"adduser">>), L(<<"sudo">>),
      <<W("echo"), W("hi"), W(">"), Abs(<<"nodir", "f">>)>>,
      <<W("echo"), W("hi"), W(">>"), Abs(<<"nodir", "f">>)>> }

WritingLines ==
    { L(<<"mkdir", "d">>), L(<<"touch", "f">>), L(<<"rm", "welcome.txt">>),
      L(<<"echo", "hi", ">", "f">>), L(<<"su">>) }

ReadPasswordLines == { L(<<"toor">>) }

\* The number of lines a session of ReadSpec may hold.
MaxReadLines == 3

ReadPassword ==
    /\ now < MaxReadLines
    /\ \E line \in ReadPasswordLines : SubmitPassword(line, 1000)

ReadCommand ==
    /\ now < MaxReadLines
    /\ \E line \in ReadingLines \cup FailingLines \cup WritingLines :
           \E rnd \in RandomPids(line) : SubmitCommand(line, rnd)

ReadNext == ReadPassword \/ ReadCommand

ReadSpec == Init /\ [][ReadNext]_vars

-----------------------------------------------------------------------------
(* Sessions in which the Tab key asks for completions of the typed text     *)

\* Tab: Terminal passes the input field and its currentPath
CallGetAutocompleteOptions(input) ==
    /\ call' = [fn |-> "getAutocompleteOptions", input |-> input,
                currentPath |-> state.currentPath]
    /\ returned' = getAutocompleteOptions(input, state.currentPath,
                                           loadFileSystem(localStorage, defaultFileSystem))
    /\ UNCHANGED <<localStorage, defaultFileSystem, state, now, lastLine, lastResult,
                   commandHistory, otherTab>>

AutoInputs ==
    { << >> }
    \cup { L(<<p>>) : p \in {"f", "fi", "c", "ls", "w", "x", "ap"} }
    \cup { L(<<c, p>>) : c \in {"cd", "cat", "grep", "LS"},
                         p \in {"w", "d", "f", ".", "x"} }
    \cup { L(<<"cp", "w", "d">>), <<W("cd"), Abs(<<"tmp">>)>> }

AutoLines ==
    { L(<<"mkdir", "d">>), L(<<"mkdir", "data">>), L(<<"touch", "f">>),
      L(<<"cd", "d">>), <<W("cd"), Abs(<<"tmp">>)>>,
      <<W("rm"), W("-r"), Abs(<<"home", "ubuntu">>)>> }

\* The number of lines a session of AutoSpec may hold.
MaxAutoLines == 3

AutoCommand ==
    /\ now < MaxAutoLines
    /\ \E line \in AutoLines : SubmitCommand(line, 1000)

Tab == \E input \in AutoInputs : CallGetAutocompleteOptions(input)

AutoNext == AutoCommand \/ Tab

AutoSpec == Init /\ [][AutoNext]_vars

-----------------------------------------------------------------------------
(* Sessions of cd, ls, mkdir and touch, as ubuntu and as root *)

NavLines ==
    { L(<<"cd">>), L(<<"cd", "..">>), L(<<"cd", "~">>), L(<<"cd", "welcome.txt">>),
      L(<<"cd", "nodir">>), L(<<"cd", "constructor">>), L(<<"cd", "d">>),
      <<W("cd"), Abs(<<"tmp">>)>>,
      L(<<"mkdir", "d">>), L(<<"mkdir", ".h">>), L(<<"mkdir", "constructor">>),
      L(<<"touch", "f">>),
      L(<<"ls">>), L(<<"ls", "-a">>),
      L(<<"su">>) }

NavPasswordLines == { L(<<"toor">>), L(<<"bob">>) }

\* The number of lines a session of NavSpec may hold.
MaxNavLines == 4

NavPassword ==
    /\ now < MaxNavLines
    /\ \E line \in NavPasswordLines : \E rnd \in RandomPids(line) : SubmitPassword(line, rnd)

NavCommand ==
    /\ now < MaxNavLines
    /\ \E line \in NavLines : \E rnd \in RandomPids(line) : SubmitCommand(line, rnd)

NavNext == NavPassword \/ NavCommand

NavSpec == Init /\ [][NavNext]_vars

-----------------------------------------------------------------------------
(* terminalStorage.ts called directly: a caller loads the store and hands   *)
(* it to one exported function.                                             *)

\* the store a load returns now
persisted == loadFileSystem(localStorage, defaultFileSystem)

\* the loaded object and localStorage, as the storage functions take them
loaded == [fs |-> persisted, ls |-> localStorage]

\* the writes a storage function made: to localStorage by its save, and to the default
\* object when that is the object the load handed out
Stored(m) ==
    /\ localStorage' = m.ls
    /\ defaultFileSystem' = defaultAfter(localStorage, defaultFileSystem, m.fs)
    /\ UNCHANGED <<state, lastLine, lastResult, commandHistory, otherTab>>

CallResolvePath(path, currentPath) ==
    /\ call' = [fn |-> "resolvePath", path |-> path, currentPath |-> currentPath]
    /\ returned' = resolvePath(persisted, path, currentPath)
    /\ UNCHANGED <<localStorage, defaultFileSystem, state, now, lastLine, lastResult,
                   commandHistory, otherTab>>

CallSwitchUser(username) ==
    /\ call' = [fn |-> "switchUser", username |-> username]
    /\ returned' = switchUser(loaded, username).ok
    /\ Stored(switchUser(loaded, username).m)
    /\ UNCHANGED now

\* inputs of resolvePath: relative, absolute and tilde paths
RelativePaths ==
    { W(".."), <<"a", "..", "b">>, W("."), W("a"), <<"..", "..">>, <<"..", "a">>,
      <<"a", "", "b">>, <<"a", "">>, EMPTY, <<".", "a", "..">>, <<"a", "b", "..", "..", "..">> }

AbsolutePaths ==
    { SLASH, Abs(<<"etc">>), Abs(<<"nodir", "x">>), Abs(<<"a", "..", "b">>),
      Abs(<<"tmp", "">>), Abs(<<"..">>) }

TildePaths == { W("~"), <<"~", "rest">>, <<"~", "">>, <<"~", "a", "b">>, <<"~", "..">> }

CurrentPaths ==
    { SLASH, Abs(<<"x">>), Abs(<<"x", "y">>), Abs(<<"x", "">>), Abs(<<"home", "ubuntu">>),
      Abs(<<"nodir">>) }

Usernames == { ROOTUSER, UBUNTU, W("constructor"), W("nouser") }

Resolve ==
    \E path \in RelativePaths \cup AbsolutePaths \cup TildePaths :
        \E currentPath \in CurrentPaths : CallResolvePath(path, currentPath)

Switch == \E username \in Usernames : CallSwitchUser(username)

ResolveNext == Resolve \/ Switch

ResolveSpec == Init /\ [][ResolveNext]_vars

-----------------------------------------------------------------------------
(* terminalStorage.ts called directly: the functions that change the tree   *)
(* and the registry.  Each call reads the clock once more.                  *)

CallCreateNode(path, type, content) ==
    /\ call' = [fn |-> "createNode", path |-> path, type |-> type, content |-> content]
    /\ returned' = createNode(loaded, path, type, content, now + 1).ok
    /\ Stored(createNode(loaded, path, type, content, now + 1).m)
    /\ now' = now + 1

CallDeleteNode(path) ==
    /\ call' = [fn |-> "deleteNode", path |-> path]
    /\ returned' = deleteNode(loaded, path).ok
    /\ Stored(deleteNode(loaded, path).m)
    /\ now' = now + 1

CallCopyNode(sourcePath, destinationPath) ==
    /\ call' = [fn |-> "copyNode", sourcePath |-> sourcePath,
                destinationPath |-> destinationPath]
    /\ returned' = copyNode(loaded, sourcePath, destinationPath, now + 1).ok
    /\ Stored(copyNode(loaded, sourcePath, destinationPath, now + 1).m)
    /\ now' = now + 1

CallMoveNode(sourcePath, destinationPath) ==
    /\ call' = [fn |-> "moveNode", sourcePath |-> sourcePath,
                destinationPath |-> destinationPath]
    /\ returned' = moveNode(loaded, sourcePath, destinationPath, now + 1).ok
    /\ Stored(moveNode(loaded, sourcePath, destinationPath, now + 1).m)
    /\ now' = now + 1

CallChangePermissions(path, mode) ==
    /\ call' = [fn |-> "changePermissions", path |-> path, mode |-> mode]
    /\ returned' = changePermissions(loaded, path, mode).ok
    /\ Stored(changePermissions(loaded, path, mode).m)
    /\ now' = now + 1

CallAddUser(username, password) ==
    /\ call' = [fn |-> "addUser", username |-> username, password |-> password]
    /\ returned' = addUser(loaded, username, password, now + 1).ok
    /\ Stored(addUser(loaded, username, password, now + 1).m)
    /\ now' = now + 1

\* the calls made in a row
MaxCalls == 3

\* paths handed to createNode and deleteNode
CreatePaths ==
    { Abs(<<"tmp", "a">>), Abs(<<"tmp", "a", "a">>), Abs(<<"nodir", "x">>),
      Abs(<<"etc", "hostname", "x">>), Abs(<<"tmp", "">>), Abs(<<"tmp", "constructor">>),
      Abs(<<"home", "bob">>), W("x") }

DeletePaths ==
    { Abs(<<"tmp", "a">>), Abs(<<"tmp">>), Abs(<<"etc", "hostname">>), Abs(<<"home">>),
      Abs(<<"nodir", "x">>), Abs(<<"tmp", "constructor">>), Abs(<<"tmp", "">>), SLASH }

Contents == { << EMPTY >>, << W("hi") >> }

\* sources and destinations of copyNode and moveNode
SourcePaths ==
    { Abs(<<"etc", "hostname">>), Abs(<<"etc">>), Abs(<<"tmp", "a">>), Abs(<<"tmp", "a", "a">>),
      Abs(<<"tmp", "">>), Abs(<<"nodir">>), SLASH }

DestinationPaths ==
    { Abs(<<"tmp">>), Abs(<<"tmp", "a">>), Abs(<<"tmp", "r">>), Abs(<<"nodir", "x">>),
      Abs(<<"etc", "hostname">>), W("x") }

\* paths and modes of changePermissions
ModePaths == { Abs(<<"etc", "hostname">>), Abs(<<"tmp">>), Abs(<<"nodir">>),
               Abs(<<"tmp", "constructor">>), SLASH }

Modes == { W("rwxr-xr-x"), W("---------"), W("755"), EMPTY, W("rwxr-xr-xx") }

\* names of addUser
NewNames == { W("bob"), UBUNTU, <<"a", "b">>, W("constructor") }

Create ==
    /\ now < MaxCalls
    /\ \E path \in CreatePaths, type \in {"file", "directory"}, content \in Contents :
           CallCreateNode(path, type, content)

Delete ==
    /\ now < MaxCalls
    /\ \E path \in DeletePaths : CallDeleteNode(path)

Copy ==
    /\ now < MaxCalls
    /\ \E sourcePath \in SourcePaths, destinationPath \in DestinationPaths :
           CallCopyNode(sourcePath, destinationPath)

Move ==
    /\ now < MaxCalls
    /\ \E sourcePath \in SourcePaths, destinationPath \in DestinationPaths :
           CallMoveNode(sourcePath, destinationPath)

Chmod ==
    /\ now < MaxCalls
    /\ \E path \in ModePaths, mode \in Modes : CallChangePermissions(path, mode)

AddUser ==
    /\ now < MaxCalls
    /\ \E username \in NewNames : CallAddUser(username, W("pw"))

StorageNext == Create \/ Delete \/ Copy \/ Move \/ Chmod \/ AddUser

StorageSpec == Init /\ [][StorageNext]_vars

-----------------------------------------------------------------------------
(* What the claims speak of *)

\* the session modes
Normal(st) == ~st.sudoMode /\ ~st.isPasswordMode
AwaitingSudoPassword(st) == st.sudoMode
AwaitingLoginPassword(st) == st.isPasswordMode /\ ~st.sudoMode

\* the text of a submitted line
typed(line) == JoinSp(line)

\* the first token of a line is the given command word, in any case
isCommand(line, word) == line # << >> /\ toLowerCase(line[1]) = W(word)

rootPassword == persisted.users[ROOTUSER].password

\* the line is the stored password of the user, who has an entry in users
isPasswordOf(line, user) ==
    user \in DOMAIN persisted.users /\ persisted.users[user].password = typed(line)

storeUnchanged == localStorage' = localStorage /\ defaultFileSystem' = defaultFileSystem

sameTreeAndUsers(a, b) == a.root = b.root /\ a.users = b.users

\* the dispatcher run on the buffered command against the store with currentUser = root
bufferedAsRoot ==
    processCommandInternal(state.sudoCommand, state,
                           <<stringified([persisted EXCEPT !.currentUser = ROOTUSER])>>,
                           defaultFileSystem, now + 1, 1000)

-----------------------------------------------------------------------------
(* Sudo *)

\* C1: when a non-root user has submitted `sudo c` and the next line equals root's
\* stored password, the persisted tree and users after the call are those that c,
\* run as root, leaves behind.
C1_SudoEffectsPersist ==
    [][(AwaitingSudoPassword(state) /\ persisted.currentUser # ROOTUSER
            /\ typed(lastLine') = rootPassword)
        => sameTreeAndUsers(persisted',
                            loadFileSystem(bufferedAsRoot.ls, bufferedAsRoot.dflt))]_vars

\* C2: after a line submitted in AwaitingSudoPassword mode, whatever the buffered
\* command and whether the password was right or wrong, the persisted currentUser is
\* the one persisted before the line.
C2_SudoRestoresIdentity ==
    [][AwaitingSudoPassword(state)
        => persisted'.currentUser = persisted.currentUser]_vars

\* a buffered `su` has run as root under the right password and ubuntu is current again
C2_RestoredAfterSu ==
    /\ lastLine = L(<<"toor">>)
    /\ "sudoMode" \in DOMAIN lastResult
    /\ "newPath" \in DOMAIN lastResult
    /\ lastResult.newPath = <<"", "root">>
    /\ persisted.currentUser = UBUNTU

\* C3: in AwaitingSudoPassword mode a line that is not root's stored password (the
\* empty line included) does not run the buffered command, leaves the persisted store
\* as it was and returns the session to Normal with sudoCommand cleared.
C3_WrongSudoPasswordNoEffect ==
    [][(AwaitingSudoPassword(state) /\ typed(lastLine') # rootPassword)
        => /\ storeUnchanged
           /\ persisted' = persisted
           /\ Normal(state')
           /\ state'.sudoCommand = << >>
           /\ state'.currentPath = state.currentPath
           /\ "newPath" \notin DOMAIN lastResult'
           /\ lastResult'.output \in {<< >>, <<W("Sorry, try again.")>>}]_vars

\* a wrong password has been refused at the sudo prompt
C3_Refused ==
    /\ lastLine = L(<<"not", "toor">>)
    /\ lastResult.output = <<W("Sorry, try again.")>>
    /\ Normal(state)

\* C4: a line submitted in AwaitingSudoPassword mode that is not root's password
\* prints "Sorry, try again.", and a line submitted in AwaitingLoginPassword mode that
\* is not tempUser's password prints "Authentication failed."; the empty line included.
C4_FailureReported ==
    [][/\ (AwaitingSudoPassword(state) /\ typed(lastLine') # rootPassword)
            => lastResult'.output = <<W("Sorry, try again.")>>
       /\ (AwaitingLoginPassword(state) /\ ~isPasswordOf(lastLine', state.tempUser))
            => lastResult'.output = <<W("Authentication failed.")>>]_vars

-----------------------------------------------------------------------------
(* Login *)

suTarget(line) == IF Len(line) > 1 THEN line[2] ELSE ROOTUSER

\* C6: `su [user]` in Normal mode, the target defaulting to root: an unknown target is
\* reported and changes neither mode, currentUser nor currentPath; root, or a user
\* switching to itself, becomes the target at once with currentPath the target's
\* homeDir; anyone else is asked for the password, with tempUser the target and
\* currentUser unchanged by this line.
C6_Su ==
    [][(Normal(state) /\ isCommand(lastLine', "su"))
        => IF suTarget(lastLine') \notin DOMAIN persisted.users
           THEN /\ lastResult'.output =
                       <<StrCatAll(<<W("su: user "), suTarget(lastLine'),
                                     W(" does not exist")>>)>>
                /\ state' = state
                /\ persisted' = persisted
           ELSE IF persisted.currentUser = ROOTUSER
                   \/ suTarget(lastLine') = persisted.currentUser
           THEN /\ persisted'.currentUser = suTarget(lastLine')
                /\ state'.currentPath = persisted.users[suTarget(lastLine')].homeDir
                /\ Normal(state')
           ELSE /\ AwaitingLoginPassword(state')
                /\ state'.tempUser = suTarget(lastLine')
                /\ state'.currentPath = state.currentPath
                /\ persisted' = persisted]_vars

\* C7: in Normal mode, for every currentUser, `sudo` followed by at least one token
\* moves to AwaitingSudoPassword with sudoCommand the rest of the line, runs nothing
\* and leaves the store unchanged; `sudo` alone prints `sudo: command required` and
\* changes no mode.
C7_SudoAlwaysPrompts ==
    [][(Normal(state) /\ isCommand(lastLine', "sudo"))
        => /\ storeUnchanged
           /\ state'.currentPath = state.currentPath
           /\ IF Len(lastLine') > 1
              THEN /\ AwaitingSudoPassword(state')
                   /\ ~state'.isPasswordMode
                   /\ state'.sudoCommand = Tail(lastLine')
              ELSE /\ lastResult'.output = <<W("sudo: command required")>>
                   /\ state' = state]_vars

\* root itself is asked for the password
C7_RootPrompted ==
    /\ AwaitingSudoPassword(state)
    /\ persisted.currentUser = ROOTUSER
    /\ state.sudoCommand = L(<<"su", "ubuntu">>)

-----------------------------------------------------------------------------
(* The store *)

\* C8: after any sequence of submitted lines the persisted currentUser is a key of the
\* persisted users.
C8_CurrentUserRegistered == persisted.currentUser \in DOMAIN persisted.users

isDirectoryAt(fs, path) == getNode(fs, path) # << >> /\ getNode(fs, path)[1].type = "directory"

\* C9: after any sequence of submitted lines every entry of users has a homeDir that
\* resolves to an existing directory.
C9_HomesExist ==
    \A u \in DOMAIN persisted.users : isDirectoryAt(persisted, persisted.users[u].homeDir)

\* a file without children, or a directory whose children are all well formed (the
\* children of a node are a mapping from names, so siblings differ in name, and a
\* node below a file would make that file one with children)
RECURSIVE WellFormed(_)
WellFormed(node) ==
    \/ node.type = "file" /\ ~hasChildren(node)
    \/ /\ node.type = "directory"
       /\ hasChildren(node)
       /\ \A name \in DOMAIN node.children : WellFormed(node.children[name])

\* the line `rm: cannot remove '/'`
rmRootRefused == StrCatAll(<<W("rm: cannot remove '"), SLASH, W("'")>>)

\* C10: in every reachable store the root is the directory it was at the start and
\* `rm -r /` fails; every node is a file without children or a directory with a
\* children mapping, so every node above another is a directory.
C10_TreeWellFormed ==
    /\ persisted.root.type = "directory"
    /\ persisted.root.created = DefaultRoot.created
    /\ persisted.root.owner = DefaultRoot.owner
    /\ WellFormed(persisted.root)
    /\ lastLine = <<W("rm"), W("-r"), SLASH>>
        => lastResult.output = <<rmRootRefused>>

-----------------------------------------------------------------------------
(* Path resolution *)

\* the non-empty segments of a path
nonEmptySegments(path) == SelectSeq(path, LAMBDA piece : piece # "")

\* a list of segments after the segments of an input have been applied in order
RECURSIVE applied(_, _)
applied(list, input) ==
    IF input = << >> THEN list
    ELSE IF Head(input) = ".."
    THEN applied(IF list = << >> THEN << >> ELSE SubSeq(list, 1, Len(list) - 1), Tail(input))
    ELSE IF Head(input) = "." THEN applied(list, Tail(input))
    ELSE applied(list \o <<Head(input)>>, Tail(input))

\* `/` followed by the segments, joined by `/`
rooted(segments) == IF segments = << >> THEN <<"", "">> ELSE <<"">> \o segments

\* the input starts with `/`, with `~`
isAbsolute(path) == Len(path) >= 2 /\ path[1] = ""
isTilde(path) == path[1] = "~"

\* C11: for an input that starts neither with `/` nor with `~`, resolvePath returns `/`
\* followed by the non-empty segments of currentPath with the input's non-empty
\* segments applied in order (`..` pops and is a no-op on the empty list, `.` is
\* skipped, anything else is pushed); resolve("..", "/") = "/" and
\* resolve("a/../b", "/x") = "/x/b".
C11_RelativeResolution ==
    (call.fn = "resolvePath" /\ ~isAbsolute(call.path) /\ ~isTilde(call.path))
        => /\ returned = rooted(applied(nonEmptySegments(call.currentPath),
                                        nonEmptySegments(call.path)))
           /\ (call.path = <<"..">> /\ call.currentPath = <<"", "">>)
                => returned = <<"", "">>
           /\ (call.path = <<"a", "..", "b">> /\ call.currentPath = <<"", "x">>)
                => returned = <<"", "x", "b">>

\* more `..` than currentPath has segments have been resolved to the root
C11_PoppedAtRoot ==
    /\ call.fn = "resolvePath"
    /\ call.path = <<"a", "b", "..", "..", "..">>
    /\ call.currentPath = <<"", "">>
    /\ returned = <<"", "">>

\* the home the claim names: the homeDir of currentUser's entry in users, or
\* /home/<currentUser> when there is no entry
homeOfCurrentUser ==
    IF persisted.currentUser \in DOMAIN persisted.users
    THEN persisted.users[persisted.currentUser].homeDir
    ELSE <<"", "home">> \o persisted.currentUser

\* C12: resolvePath returns an input starting with `/` unchanged; for exactly `~` it
\* returns currentUser's homeDir (/home/<currentUser> without an entry in users); for
\* `~/rest` it returns that home followed by `/rest`; currentPath and the existence of
\* the path play no part.
C12_AbsoluteAndTilde ==
    call.fn = "resolvePath"
        => /\ isAbsolute(call.path) => returned = call.path
           /\ call.path = <<"~">> => returned = homeOfCurrentUser
           /\ (Len(call.path) >= 2 /\ call.path[1] = "~")
                => returned = homeOfCurrentUser \o Tail(call.path)

\* `~/rest` has been resolved for a current user that has no entry in users
C12_TildeWithoutEntry ==
    /\ call.fn = "resolvePath"
    /\ call.path = <<"~", "rest">>
    /\ persisted.currentUser \notin DOMAIN persisted.users
    /\ returned = <<"", "home", "constructor", "rest">>

-----------------------------------------------------------------------------
(* Claims about the tree functions, over StorageSpec.  A path names the     *)
(* entry reached from the root through the children a directory holds.      *)

\* the node a sequence of names leads to: << >> when there is none, <<node>> otherwise
RECURSIVE nodeAt(_, _)
nodeAt(node, names) ==
    IF names = << >> THEN <<node>>
    ELSE IF "children" \notin DOMAIN node \/ Head(names) \notin DOMAIN node.children
    THEN << >>
    ELSE nodeAt(node.children[Head(names)], Tail(names))

entryAt(fs, path) == nodeAt(fs.root, Segments(path))

isDirectory(entry) == entry # << >> /\ entry[1].type = "directory"

\* the directory a path's last name is looked up in
parentEntry(fs, path) == nodeAt(fs.root, Front(Segments(path)))

\* the parent of the path is a directory without a child of the path's last name
freeName(fs, path) ==
    /\ Last(path) # ""
    /\ isDirectory(parentEntry(fs, path))
    /\ Last(path) \notin DOMAIN parentEntry(fs, path)[1].children

\* the entry is a fresh node of the given kind
freshNode(entry, type, content, owner) ==
    /\ entry # << >>
    /\ entry[1].type = type
    /\ entry[1].owner = owner
    /\ type = "file" =>
           entry[1].permissions = W("rw-r--r--") /\ entry[1].content = content
    /\ type = "directory" =>
           entry[1].permissions = W("rwxr-xr-x") /\ DOMAIN entry[1].children = {}

\* C13: createNode(p, kind, content) succeeds exactly when p's last name is not empty and
\* p's parent is a directory with no child of that name; after a success p resolves to a
\* node of that kind owned by currentUser, a file with the given content and rw-r--r--
\* or a directory without children and rwxr-xr-x; after a failure the tree is unchanged.
C13_CreateNode ==
    [][call'.fn = "createNode" =>
          /\ returned' = freeName(persisted, call'.path)
          /\ returned' => freshNode(entryAt(persisted', call'.path), call'.type,
                                    call'.content, persisted.currentUser)
          /\ ~returned' => persisted'.root = persisted.root]_vars

\* the names before a path's last slash, as a place in the tree
parentNames(path) == Segments(Front(path))

\* the path's parent is no directory, or has no child of the path's last name
childAbsent(fs, path) ==
    \/ ~isDirectory(nodeAt(fs.root, parentNames(path)))
    \/ Last(path) \notin DOMAIN nodeAt(fs.root, parentNames(path))[1].children

\* the tree without the entry the names lead to; every other entry as it was
RECURSIVE pruned(_, _)
pruned(node, names) ==
    IF Len(names) = 1
    THEN [node EXCEPT !.children = [n \in (DOMAIN @) \ {names[1]} |-> @[n]]]
    ELSE [node EXCEPT !.children[Head(names)] = pruned(@, Tail(names))]

\* C14: a deleteNode(p) that succeeds removes the entry p names with its subtree and
\* leaves every other node as it was; deleteNode fails and leaves the tree unchanged
\* when p's parent is missing or no directory or has no child of p's last name.
C14_DeleteNode ==
    [][call'.fn = "deleteNode" =>
          /\ childAbsent(persisted, call'.path) =>
                 ~returned' /\ persisted'.root = persisted.root
          /\ ~childAbsent(persisted, call'.path) =>
                 /\ returned'
                 /\ persisted'.root =
                        pruned(persisted.root, parentNames(call'.path) \o <<Last(call'.path)>>)]_vars

\* where copyNode(src, dst) is to put the copy: below dst under src's last name when dst
\* is a directory, at dst itself otherwise
copyTarget(fs, src, dst) ==
    IF isDirectory(entryAt(fs, dst)) THEN Segments(dst) \o <<Last(src)>>
    ELSE parentNames(dst) \o <<Last(dst)>>

\* the source exists and the place for the copy can be written
mayCopy(fs, src, dst) ==
    /\ entryAt(fs, src) # << >>
    /\ IF isDirectory(entryAt(fs, dst)) THEN Last(src) # ""
       ELSE Len(dst) > 1 /\ isDirectory(nodeAt(fs.root, parentNames(dst)))

\* copy is original with every modified set to t: same type, owner, permissions,
\* created and content, same names below, each again such a copy
RECURSIVE copyOf(_, _, _)
copyOf(original, copy, t) ==
    /\ copy.type = original.type
    /\ copy.owner = original.owner
    /\ copy.permissions = original.permissions
    /\ copy.created = original.created
    /\ copy.modified = t
    /\ ("content" \in DOMAIN copy) = ("content" \in DOMAIN original)
    /\ "content" \in DOMAIN original => copy.content = original.content
    /\ ("children" \in DOMAIN copy) = ("children" \in DOMAIN original)
    /\ "children" \in DOMAIN original =>
           /\ DOMAIN copy.children = DOMAIN original.children
           /\ \A n \in DOMAIN original.children :
                  copyOf(original.children[n], copy.children[n], t)

\* the entry is still there, of the same type and, for a file, with the same content
keptAs(before, after) ==
    /\ after # << >>
    /\ after[1].type = before[1].type
    /\ "content" \in DOMAIN before[1] =>
           "content" \in DOMAIN after[1] /\ after[1].content = before[1].content

\* C15: copyNode(src, dst) puts the copy at dst/<last name of src> when dst is an
\* existing directory and at dst otherwise, which needs dst's parent to be a directory;
\* a failed call leaves the tree unchanged; the copy equals src with created kept and
\* modified set to the time of the copy on every node; src still resolves to a node
\* with its original content.
C15_CopyNode ==
    [][call'.fn = "copyNode" =>
          /\ returned' = mayCopy(persisted, call'.sourcePath, call'.destinationPath)
          /\ ~returned' => persisted'.root = persisted.root
          /\ returned' =>
                 /\ nodeAt(persisted'.root,
                           copyTarget(persisted, call'.sourcePath,
                                      call'.destinationPath)) # << >>
                 /\ copyOf(entryAt(persisted, call'.sourcePath)[1],
                           nodeAt(persisted'.root,
                                  copyTarget(persisted, call'.sourcePath,
                                             call'.destinationPath))[1],
                           now')
                 /\ keptAs(entryAt(persisted, call'.sourcePath),
                           entryAt(persisted', call'.sourcePath))]_vars

\* the node with every modified set to t
RECURSIVE restamped(_, _)
restamped(node, t) ==
    IF "children" \in DOMAIN node
    THEN [node EXCEPT !.modified = t,
                      !.children = [n \in DOMAIN @ |-> restamped(@[n], t)]]
    ELSE [node EXCEPT !.modified = t]

\* the tree with new put at the place the names lead to
RECURSIVE grafted(_, _, _)
grafted(node, names, new) ==
    IF Len(names) = 1
    THEN [node EXCEPT !.children = (names[1] :> new) @@ @]
    ELSE [node EXCEPT !.children[Head(names)] = grafted(@, Tail(names), new)]

\* the store after a successful copy of src to dst at time t
withCopy(fs, src, dst, t) ==
    [fs EXCEPT !.root = grafted(@, copyTarget(fs, src, dst),
                                restamped(entryAt(fs, src)[1], t))]

\* the copy can be made and the source can then be deleted
mayMove(fs, src, dst, t) ==
    mayCopy(fs, src, dst) /\ ~childAbsent(withCopy(fs, src, dst, t), src)

\* C16: moveNode(src, dst) succeeds exactly when the copy succeeds and the delete of src
\* after it succeeds, and then the tree is the one with the copy and without src; when
\* the copy fails the tree is unchanged; when the copy succeeds and the delete fails
\* moveNode fails, the copy stays in the persisted tree, and the source path still
\* resolves to a node equivalent to the copy.
C16_MoveNode ==
    [][call'.fn = "moveNode" =>
          /\ returned' = mayMove(persisted, call'.sourcePath, call'.destinationPath, now')
          /\ ~mayCopy(persisted, call'.sourcePath, call'.destinationPath) =>
                 persisted'.root = persisted.root
          /\ returned' =>
                 persisted'.root =
                     pruned(withCopy(persisted, call'.sourcePath,
                                     call'.destinationPath, now').root,
                            parentNames(call'.sourcePath) \o <<Last(call'.sourcePath)>>)
          /\ mayCopy(persisted, call'.sourcePath, call'.destinationPath) /\ ~returned' =>
                 /\ persisted'.root =
                        withCopy(persisted, call'.sourcePath,
                                 call'.destinationPath, now').root
                 /\ keptAs(entryAt(persisted, call'.sourcePath),
                           entryAt(persisted', call'.sourcePath))]_vars

\* the tree with the permissions of the entry at path set to mode, all else as it was
withMode(fs, path, mode) ==
    IF Segments(path) = << >> THEN [fs.root EXCEPT !.permissions = mode]
    ELSE grafted(fs.root, Segments(path),
                 [entryAt(fs, path)[1] EXCEPT !.permissions = mode])

\* C17: changePermissions(path, mode) on an existing path fails and changes nothing
\* when mode is one of the nine-character rwx strings, and otherwise succeeds and stores
\* mode verbatim as the permissions of that node only; on an absent path it fails and
\* changes nothing.
C17_ChangePermissions ==
    [][call'.fn = "changePermissions" =>
          /\ entryAt(persisted, call'.path) = << >> =>
                 ~returned' /\ persisted'.root = persisted.root
          /\ entryAt(persisted, call'.path) # << >> /\ call'.mode \in CanonicalModes =>
                 ~returned' /\ persisted'.root = persisted.root
          /\ entryAt(persisted, call'.path) # << >> /\ call'.mode \notin CanonicalModes =>
                 /\ returned'
                 /\ persisted'.root = withMode(persisted, call'.path, call'.mode)]_vars

\* `/home/<name>`
homeOf(username) == StrCat(<<"", "home", "">>, username)

\* the entry is a directory that holds a file .bashrc owned by the user
seeded(entry, username) ==
    /\ isDirectory(entry)
    /\ ".bashrc" \in DOMAIN entry[1].children
    /\ entry[1].children[".bashrc"].type = "file"
    /\ entry[1].children[".bashrc"].owner = username

\* C18: addUser(name, password) fails and changes nothing when name is already in users;
\* whenever it succeeds, users[name] has homeDir /home/<name>, that path resolves to a
\* directory, and the directory holds a file .bashrc owned by name.
C18_AddUser ==
    [][call'.fn = "addUser" =>
          /\ call'.username \in DOMAIN persisted.users =>
                 /\ ~returned'
                 /\ persisted'.root = persisted.root
                 /\ persisted'.users = persisted.users
          /\ returned' =>
                 /\ call'.username \in DOMAIN persisted'.users
                 /\ persisted'.users[call'.username].homeDir = homeOf(call'.username)
                 /\ seeded(entryAt(persisted', homeOf(call'.username)),
                           call'.username)]_vars

-----------------------------------------------------------------------------
(* Claims about the commands that change the registry and the files,        *)
(* over Spec.                                                               *)

\* the line runs a command as root: root is the current user, or the line answers the
\* sudo prompt and the buffered command runs with currentUser = root
ranAsRoot == persisted.currentUser = ROOTUSER \/ AwaitingSudoPassword(state)

\* C19: across a submitted line an entry is added to users only if the command ran as
\* root, the stored password of a user changes only if the command ran as root or as
\* that user, no user is removed and no homeDir changes.
C19_RegistryAuthorised ==
    [][/\ DOMAIN persisted.users \subseteq DOMAIN persisted'.users
       /\ DOMAIN persisted'.users # DOMAIN persisted.users => ranAsRoot
       /\ \A u \in DOMAIN persisted.users :
              /\ persisted'.users[u].homeDir = persisted.users[u].homeDir
              /\ persisted'.users[u].password # persisted.users[u].password =>
                     ranAsRoot \/ persisted.currentUser = u]_vars

\* ubuntu has changed its own password and root has added bob
C19_ChangedAndAdded ==
    /\ persisted.users[UBUNTU].password = W("pw")
    /\ W("bob") \in DOMAIN persisted.users
    /\ isCommand(lastLine, "adduser")

\* the path a redirection names, from the directory the terminal is in
echoTarget(path) == resolvePath(persisted, path, state.currentPath)

\* the entry is a file with the given lines
fileWith(entry, lines) ==
    entry # << >> /\ entry[1].type = "file" /\ entry[1].content = lines

\* what `cat <path>` prints after the line
catPrints(path) == cmdCat(<<W("cat"), path>>, state', loaded').result.output

isADirectory(path) == StrCatAll(<<W("echo: "), path, W(": Is a directory")>>)

\* `echo text > path`
written(text, path) ==
    /\ /\ isDirectory(nodeAt(persisted.root, parentNames(echoTarget(path))))
       /\ \/ entryAt(persisted, echoTarget(path)) = << >>
          \/ entryAt(persisted, echoTarget(path))[1].type = "file"
       => /\ fileWith(entryAt(persisted', echoTarget(path)), <<JoinSp(text)>>)
          /\ catPrints(path) = <<JoinSp(text)>>
    /\ isDirectory(entryAt(persisted, echoTarget(path)))
       => lastResult'.output = <<isADirectory(path)>> /\ storeUnchanged

\* `echo text >> path`
appended(text, path) ==
    /\ /\ entryAt(persisted, echoTarget(path)) # << >>
       /\ entryAt(persisted, echoTarget(path))[1].type = "file"
       => /\ fileWith(entryAt(persisted', echoTarget(path)),
                      entryAt(persisted, echoTarget(path))[1].content \o <<JoinSp(text)>>)
          /\ catPrints(path) =
                 entryAt(persisted, echoTarget(path))[1].content \o <<JoinSp(text)>>
    /\ /\ entryAt(persisted, echoTarget(path)) = << >>
       /\ isDirectory(nodeAt(persisted.root, parentNames(echoTarget(path))))
       => /\ fileWith(entryAt(persisted', echoTarget(path)), <<JoinSp(text)>>)
          /\ catPrints(path) = <<JoinSp(text)>>
    /\ isDirectory(entryAt(persisted, echoTarget(path)))
       => lastResult'.output = <<isADirectory(path)>> /\ storeUnchanged

\* C20: `echo t > p`, p's parent an existing directory and p absent or a file, leaves p
\* a file with content t, which cat prints; `echo u >> p` on a file with content c
\* leaves c, newline, u, and on an absent p with an existing parent creates p with
\* content u; when p is a directory both forms print an `Is a directory` error and
\* leave the store unchanged.
C20_EchoRedirection ==
    [][\A text \in EchoTexts, path \in EchoTargets :
           /\ lastLine' = echoLine(text, ">", path) => written(text, path)
           /\ lastLine' = echoLine(text, ">>", path) => appended(text, path)]_vars

-----------------------------------------------------------------------------
(* Claims about rm, cd, ls and mv as typed, over TreeSpec.                  *)

\* the option words of a line and its operand: the last word that is no option
isOption(word) == word \in {W("-r"), W("-R"), W("-f"), W("-rf"), W("-a"), W("-l"), W("-la")}

givesOption(line, words) == \E i \in 2..Len(line) : line[i] \in words

hasOperand(line) == \E i \in 2..Len(line) : ~isOption(line[i])

operandOf(line) ==
    line[CHOOSE i \in 2..Len(line) :
             ~isOption(line[i]) /\ \A j \in (i + 1)..Len(line) : isOption(line[j])]

\* the path the operand of the line names, from the directory the terminal is in
targetOf(line) == resolvePath(persisted, operandOf(line), state.currentPath)

rmError(line, reason) == StrCatAll(<<W("rm: cannot remove '"), operandOf(line), W(reason)>>)

\* what the claim says of one rm line with an operand
removed(line) ==
    /\ /\ isDirectory(entryAt(persisted, targetOf(line)))
       /\ ~givesOption(line, {W("-r"), W("-R"), W("-rf")})
       => /\ lastResult'.output = <<rmError(line, "': Is a directory")>>
          /\ persisted'.root = persisted.root
    /\ entryAt(persisted, targetOf(line)) = << >>
       => /\ persisted'.root = persisted.root
          /\ lastResult'.output =
                 IF givesOption(line, {W("-f"), W("-rf")}) THEN << >>
                 ELSE <<rmError(line, "': No such file or directory")>>
    /\ /\ entryAt(persisted, targetOf(line)) # << >>
       /\ \/ ~isDirectory(entryAt(persisted, targetOf(line)))
          \/ /\ givesOption(line, {W("-r"), W("-R"), W("-rf")})
             /\ targetOf(line) # SLASH
       => /\ entryAt(persisted', targetOf(line)) = << >>
          /\ lastResult'.output = << >>

\* C21: rm on a directory without -r prints an `Is a directory` error and leaves the
\* tree unchanged; on an absent target it prints a not-found error, or nothing with -f,
\* and leaves the tree unchanged; with -r on an existing directory other than the root,
\* or on an existing file, the target no longer resolves and nothing is printed.
C21_Rm ==
    [][Normal(state) /\ isCommand(lastLine', "rm") /\ hasOperand(lastLine')
           => removed(lastLine')]_vars

\* the path a cd line asks for: its first argument, `~` when there is none
cdTarget(line) ==
    resolvePath(persisted, IF Len(line) >= 2 THEN line[2] ELSE W("~"), state.currentPath)

\* the directory above a path, the root above itself
above(path) ==
    IF Segments(path) = << >> THEN SLASH ELSE FromSegments(Front(Segments(path)))

\* what the claim says of one cd line
changedDirectory(line) ==
    /\ ~isDirectory(entryAt(persisted, cdTarget(line)))
       => lastResult'.output # << >> /\ state'.currentPath = state.currentPath
    /\ isDirectory(entryAt(persisted, cdTarget(line)))
       => /\ lastResult'.output = << >>
          /\ state'.currentPath = cdTarget(line)
          /\ isDirectory(entryAt(persisted', state'.currentPath))
    /\ /\ Len(line) = 1
       /\ persisted.currentUser \in DOMAIN persisted.users
       /\ isDirectory(entryAt(persisted, persisted.users[persisted.currentUser].homeDir))
       => state'.currentPath = persisted.users[persisted.currentUser].homeDir
    /\ /\ line = L(<<"cd", "..">>)
       /\ state.currentPath \in {Abs(<<"home", "ubuntu">>), Abs(<<"home">>), SLASH}
       => lastResult'.output = << >> /\ state'.currentPath = above(state.currentPath)
    /\ storeUnchanged

\* C22: cd to an absent target or a file prints an error line and leaves currentPath
\* unchanged; otherwise currentPath becomes the resolved path, an existing directory;
\* cd without argument goes to the home of currentUser; `cd ..` from /home/ubuntu
\* gives /home, then /, and then stays at / without error; cd never changes the store.
C22_Cd ==
    [][Normal(state) /\ isCommand(lastLine', "cd") => changedDirectory(lastLine')]_vars

\* a third `cd ..` has been typed and the terminal is at the root
C22_StaysAtRoot ==
    /\ now = 3
    /\ lastLine = L(<<"cd", "..">>)
    /\ lastResult.output = << >>
    /\ state.currentPath = SLASH

\* the children of the directory the terminal is in
childrenHere(fs) == entryAt(fs, state.currentPath)[1].children

\* a child as ls prints it
shownAs(children, name) ==
    IF children[name].type = "directory" THEN name \o "/" ELSE name

\* the names a plain ls, or ls -a, is to list
listed(children, all) == {n \in DOMAIN children : all \/ ~startsWithDot(n)}

\* the words it is to print for them
listing(children, all) == { shownAs(children, name) : name \in listed(children, all) }

\* the words for the names in the given order, two spaces apart
lineOf(children, names) ==
    join([i \in DOMAIN names |-> W(shownAs(children, names[i]))], W("  "))

\* the output is one line with the words for exactly the names to list (the order of
\* the names is no part of the claim: it is taken as the model enumerates a set), and
\* one empty line when there is none
prints(output, children, all) ==
    IF listed(children, all) = {} THEN output = <<EMPTY>>
    ELSE output = <<lineOf(children, SetToSeq(listed(children, all)))>>

\* what a plain ls in the directory the terminal is in prints after the line
lsPrints == cmdLs(<<W("ls")>>, state', loaded').result.output

\* the line is `mkdir n` for a name n of one segment, and it succeeded
madeDirectory(line) ==
    /\ isCommand(line, "mkdir") /\ Len(line) = 2 /\ Len(line[2]) = 1
    /\ lastResult'.output = << >>

\* plain ls and ls -a print the children they are to print
listsChildren ==
    /\ lastLine' = L(<<"ls">>) => prints(lastResult'.output, childrenHere(persisted), FALSE)
    /\ lastLine' = L(<<"ls", "-a">>) => prints(lastResult'.output, childrenHere(persisted), TRUE)

\* C23 as stated: for every name n of one segment, after `mkdir n` succeeds in the
\* current directory a plain ls there prints `n/`; plain ls lists a child exactly when
\* its name does not start with a dot and ls -a lists every child, directories with `/`.
C23_MkdirThenLs ==
    [][Normal(state) =>
          /\ madeDirectory(lastLine') =>
                 /\ prints(lsPrints, childrenHere(persisted'), FALSE)
                 /\ (lastLine'[2][1] \o "/") \in listing(childrenHere(persisted'), FALSE)
          /\ listsChildren]_vars

\* C23 amended: the same for every name n of one segment that does not start with a
\* dot; after `mkdir n` for a name that starts with a dot, plain ls does not print it
\* and ls -a does.
C23_MkdirThenLsVisible ==
    [][Normal(state) =>
          /\ madeDirectory(lastLine') =>
                 /\ prints(lsPrints, childrenHere(persisted'), FALSE)
                 /\ ~startsWithDot(lastLine'[2][1]) =>
                        (lastLine'[2][1] \o "/") \in listing(childrenHere(persisted'), FALSE)
                 /\ startsWithDot(lastLine'[2][1]) =>
                        /\ (lastLine'[2][1] \o "/") \notin listing(childrenHere(persisted'), FALSE)
                        /\ (lastLine'[2][1] \o "/") \in listing(childrenHere(persisted'), TRUE)
          /\ listsChildren]_vars

\* a plain ls has been typed where d and .h were made
C23_ListedWithHidden ==
    /\ lastLine = L(<<"ls">>)
    /\ {"d", ".h"} \subseteq DOMAIN childrenHere(persisted)
    /\ Len(lastResult.output) = 1

-----------------------------------------------------------------------------
(* Claims about the command history, over HistorySpec.                      *)

entries == commandHistory.commands
cursor == commandHistory.position

\* addToHistory(c) is to append c
appends(c) == ~isBlank(c) /\ (entries = << >> \/ entries[Len(entries)] # c)

\* C24: after any sequence of addToHistory, getPreviousCommand and getNextCommand no
\* two adjacent entries are equal and no entry is blank; no call changes, reorders or
\* removes an entry; addToHistory(c) appends c exactly when c is not blank and differs
\* from the last entry, and the other two functions leave the entries as they are.
C24_HistoryAppendOnly ==
    [][/\ \A i \in DOMAIN entries' : ~isBlank(entries'[i])
       /\ \A i \in 1..(Len(entries') - 1) : entries'[i] # entries'[i + 1]
       /\ Len(entries') >= Len(entries)
       /\ SubSeq(entries', 1, Len(entries)) = entries
       /\ call'.fn = "addToHistory" =>
              entries' = IF appends(call'.command) THEN Append(entries, call'.command)
                         ELSE entries
       /\ call'.fn \in {"getPreviousCommand", "getNextCommand"} => entries' = entries]_vars

\* addToHistory was called with a command equal to an earlier entry that is not the
\* last one, and the command is the third entry
C24_EarlierEntryRepeated ==
    /\ call.fn = "addToHistory"
    /\ Len(entries) = 3
    /\ entries[1] = entries[3]
    /\ call.command = entries[3]
    /\ cursor = 3

\* C25: addToHistory sets the cursor to the length of the history; getPreviousCommand
\* takes one from the cursor, not below 0, and returns the entry at the cursor;
\* getNextCommand adds one, not above the length, and returns the entry at the cursor,
\* or the empty string exactly when the cursor ends at the length; once there is an
\* entry the cursor stays within 0..n.
C25_HistoryCursor ==
    [][/\ call'.fn = "addToHistory" => cursor' = Len(entries')
       /\ call'.fn = "getPreviousCommand" /\ entries # << >> =>
              /\ cursor' = IF cursor > 0 THEN cursor - 1 ELSE 0
              /\ returned' = entries[cursor' + 1]
       /\ call'.fn = "getNextCommand" =>
              /\ cursor' = IF cursor < Len(entries) THEN cursor + 1 ELSE Len(entries)
              /\ cursor' < Len(entries) => returned' = entries[cursor' + 1]
              /\ (returned' = EMPTY) = (cursor' = Len(entries))
       /\ entries' # << >> => cursor' \in 0..Len(entries')]_vars

\* getPreviousCommand was called with the cursor at 0 and returned entry 0 again
C25_PreviousAtFirst ==
    /\ call.fn = "getPreviousCommand"
    /\ Len(entries) >= 2
    /\ cursor = 0
    /\ returned = entries[1]

-----------------------------------------------------------------------------
(* Claims about the stored value, over LossSpec and TabsSpec.               *)

\* the canned default snapshot: users ubuntu and root, currentUser ubuntu, the default
\* directory skeleton
isCannedDefault(fs) ==
    /\ fs.root = DefaultRoot
    /\ fs.users = DefaultUsers
    /\ fs.currentUser = UBUNTU

\* C26: whenever the stored value is absent or unparsable, loadFileSystem returns the
\* canned default snapshot, whatever commands ran earlier in the session.
C26_DefaultFallback ==
    ~parses(localStorage) => isCannedDefault(loadFileSystem(localStorage, defaultFileSystem))

\* the names a tab created with a line `touch n` or `mkdir n` typed at its prompt
createdBy(history) ==
    { n \in TabNames : \E i \in 1..Len(history.commands) :
          history.commands[i] \in {JoinSp(L(<<"touch", n>>)), JoinSp(L(<<"mkdir", n>>))} }

\* the node a tab's line made in /home/ubuntu
madeAt(n) == entryAt(persisted, <<"", "home", "ubuntu", n>>)

\* a mutation made by a completed command of one of the tabs is missing from the stored
\* value (the lines of the tabs remove nothing)
lostUpdate ==
    \E n \in createdBy(commandHistory) \cup createdBy(otherTab.commandHistory) :
        madeAt(n) = << >>

bothMade == createdBy(commandHistory) # {} /\ createdBy(otherTab.commandHistory) # {}

-----------------------------------------------------------------------------
(* Claims about what a line leaves of the tree, over EchoSpec, TreeSpec and *)
(* NavSpec.                                                                 *)

\* the sequences of names that lead from a node to a node
RECURSIVE pathsOf(_)
pathsOf(node) ==
    {<< >>} \cup
    (IF "children" \in DOMAIN node
     THEN UNION { { <<n>> \o p : p \in pathsOf(node.children[n]) } :
                  n \in DOMAIN node.children }
     ELSE {})

\* the words of an echo line after its redirection token, << >> when it has none
redirectWords(line) ==
    IF redirectIndexOf(Tail(line)) = 0 THEN << >>
    ELSE SubSeq(Tail(line), redirectIndexOf(Tail(line)) + 1, Len(Tail(line)))

\* the names of the redirect target of an echo line that has one
redirectNames(line) == Segments(echoTarget(JoinSp(redirectWords(line))))

\* the node the names led to is still there, of the same type and with the same content
keptAt(names) ==
    /\ nodeAt(persisted'.root, names) # << >>
    /\ nodeAt(persisted'.root, names)[1].type = nodeAt(persisted.root, names)[1].type
    /\ contentLines(nodeAt(persisted'.root, names)[1])
           = contentLines(nodeAt(persisted.root, names)[1])

\* the error lines of echo for a redirect target
echoErrors(path) ==
    { isADirectory(path),
      StrCatAll(<<W("echo: "), path, W(": No such file or directory")>>) }

\* C28: for every echo line, with or without a redirection, with text tokens such as -r
\* and with a redirect target whose parent directory does not exist, every path that
\* resolved before the line resolves afterwards, only the redirect target file may have
\* another content, and an echo that fails prints an echo error line.
C28_EchoKeepsData ==
    [][isCommand(lastLine', "echo") =>
          /\ \A names \in pathsOf(persisted.root) :
                 /\ nodeAt(persisted'.root, names) # << >>
                 /\ redirectWords(lastLine') = << >> \/ names # redirectNames(lastLine')
                    => keptAt(names)
          /\ redirectWords(lastLine') # << >> /\ lastResult'.output # << >>
             => /\ Len(lastResult'.output) = 1
                /\ lastResult'.output[1] \in echoErrors(JoinSp(redirectWords(lastLine')))]_vars

\* copy has the type, the content and the descendants of original
RECURSIVE sameData(_, _)
sameData(original, copy) ==
    /\ copy.type = original.type
    /\ ("content" \in DOMAIN original) = ("content" \in DOMAIN copy)
    /\ "content" \in DOMAIN original => copy.content = original.content
    /\ ("children" \in DOMAIN original) = ("children" \in DOMAIN copy)
    /\ "children" \in DOMAIN original =>
           /\ DOMAIN copy.children = DOMAIN original.children
           /\ \A n \in DOMAIN original.children :
                  sameData(original.children[n], copy.children[n])

\* the paths the operands of the mv line name, from the directory the terminal is in
mvSource(line) == resolvePath(persisted, line[2], state.currentPath)
mvDestination(line) == resolvePath(persisted, line[3], state.currentPath)

\* where the moved node is to be: below the destination under its own name when the
\* destination was a directory, at the destination otherwise
mvTarget(line) == copyTarget(persisted, mvSource(line), mvDestination(line))

\* `mv src dst` printed nothing
mvSucceeded ==
    isCommand(lastLine', "mv") /\ Len(lastLine') >= 3 /\ lastResult'.output = << >>

\* C29: whenever `mv src dst` reports success, a node with the type, content and
\* descendants src had before is at the destination afterwards, also when a file is moved
\* onto its own path and a directory onto itself or into one of its descendants.
C29_MvKeepsData ==
    [][mvSucceeded =>
          /\ entryAt(persisted, mvSource(lastLine')) # << >>
          /\ nodeAt(persisted'.root, mvTarget(lastLine')) # << >>
          /\ sameData(entryAt(persisted, mvSource(lastLine'))[1],
                      nodeAt(persisted'.root, mvTarget(lastLine'))[1])]_vars

\* C30: after any sequence of submitted lines, `rm -r` and `mv` of the current directory
\* or of one of its ancestors, `su` and a login included, the terminal's currentPath names
\* a directory of the persisted tree.
C30_CurrentPathIsDirectory == isDirectory(entryAt(persisted, state.currentPath))

-----------------------------------------------------------------------------
(* Claims about the modes of the terminal and the identity, over Spec.      *)

\* C31: at most one of isPasswordMode and sudoMode is true; sudoCommand is non-empty
\* exactly when sudoMode is true; tempUser is non-empty exactly when isPasswordMode is
\* true, and then it is a key of users, differs from currentUser, and currentUser is not
\* root.
C31_ModeConsistency ==
    /\ ~(state.isPasswordMode /\ state.sudoMode)
    /\ (state.sudoCommand # << >>) = state.sudoMode
    /\ (state.tempUser # EMPTY) = state.isPasswordMode
    /\ state.isPasswordMode =>
           /\ state.tempUser \in DOMAIN persisted.users
           /\ state.tempUser # persisted.currentUser
           /\ persisted.currentUser # ROOTUSER

\* C32: a pending password mode lasts one submitted line: whatever line is submitted in
\* AwaitingLoginPassword or AwaitingSudoPassword mode (the password, another text, the
\* empty line) and whatever the buffered sudo command is, the session is in Normal mode
\* afterwards.
C32_OneLineOfPasswordMode ==
    [][~Normal(state) /\ now' # now => Normal(state')]_vars

\* root's password was submitted for a buffered `sudo whoami`: the nested sudo printed its
\* prompt and the session is in Normal mode
C32_NestedSudoNotChained ==
    /\ Normal(state)
    /\ lastLine = L(<<"toor">>)
    /\ lastResult.output = <<W("[sudo] password for root:")>>

\* the current user becomes another one across the line
becomes(a, b) == persisted.currentUser = a /\ persisted'.currentUser = b /\ a # b

\* the line is `su b`, typed at the prompt
isSuTo(line, b) == isCommand(line, "su") /\ Len(line) = 2 /\ line[2] = b

\* the line is what users[b].password evaluates to before the line
isStoredPasswordOf(line, b) ==
    hasUser(persisted.users, b) /\ userAt(persisted, b).password = typed(line)

\* C33: across one submitted line the persisted currentUser changes from a to another
\* user b only if a is root and the line is `su b`, or the session was awaiting the login
\* password of b and the line is b's stored password; a user other than root does not end
\* a line as root without having submitted root's password, and a buffered sudo command
\* does not run unless the line is root's password.
C33_NoIdentityChangeWithoutPassword ==
    [][/\ persisted'.currentUser # persisted.currentUser =>
              \/ /\ persisted.currentUser = ROOTUSER
                 /\ Normal(state)
                 /\ isSuTo(lastLine', persisted'.currentUser)
              \/ /\ AwaitingLoginPassword(state)
                 /\ state.tempUser = persisted'.currentUser
                 /\ isStoredPasswordOf(lastLine', state.tempUser)
       /\ becomes(persisted.currentUser, ROOTUSER) => typed(lastLine') = rootPassword
       /\ AwaitingSudoPassword(state) /\ typed(lastLine') # rootPassword =>
              /\ storeUnchanged
              /\ lastResult'.output \in {<< >>, <<W("Sorry, try again.")>>}]_vars

\* bob, whom root added, has logged in from ubuntu's session with the password bob
C33_BobLoggedIn ==
    /\ persisted.currentUser = W("bob")
    /\ lastLine = L(<<"bob">>)
    /\ lastResult.output = <<W("Welcome, bob!")>>

-----------------------------------------------------------------------------
(* Claims about the lines that only read or fail, over ReadSpec.            *)

\* the commands that only read
readingWords ==
    { W(w) : w \in {"pwd", "cd", "ls", "cat", "whoami", "grep", "help", "man", "date",
                    "uname", "df", "ps", "top", "apt", "exit", "clear"} }

\* the words the interpreter has a case for
handledWords ==
    readingWords \cup
    { W(w) : w \in {"sudo", "mkdir", "touch", "echo", "rm", "su", "adduser", "passwd",
                    "apt-get", "cp", "mv", "chmod"} }

\* the line only reads: one of the reading commands, echo without a redirection, the
\* empty line, a word the interpreter has no case for
onlyReads(line) ==
    \/ line = << >>
    \/ toLowerCase(line[1]) \in readingWords
    \/ isCommand(line, "echo") /\ redirectWords(line) = << >>
    \/ toLowerCase(line[1]) \notin handledWords

\* the messages for a missing operand
missingOperand ==
    { W(e) : e \in {"sudo: command required", "mkdir: missing operand",
                    "touch: missing file operand", "cat: missing file operand",
                    "rm: missing operand", "grep: missing pattern or file",
                    "cp: missing file operand", "mv: missing file operand",
                    "chmod: missing operand", "adduser: Missing username",
                    "passwd: Missing username", "passwd: Missing new password",
                    "apt: Missing package name"} }

\* the messages for an operand a of the line that names nothing
notFound(a) ==
    { StrCatAll(<<W("cd: "), a, W(": No such file or directory")>>),
      StrCatAll(<<W("ls: cannot access '"), a, W("': No such file or directory")>>),
      StrCatAll(<<W("cat: "), a, W(": No such file or directory")>>),
      StrCatAll(<<W("echo: "), a, W(": No such file or directory")>>),
      StrCatAll(<<W("rm: cannot remove '"), a, W("': No such file or directory")>>),
      StrCatAll(<<W("grep: "), a, W(": No such file or directory")>>),
      StrCatAll(<<W("cp: cannot stat '"), a, W("': No such file or directory")>>),
      StrCatAll(<<W("mv: cannot stat '"), a, W("': No such file or directory")>>),
      StrCatAll(<<W("chmod: cannot access '"), a, W("': No such file or directory")>>),
      StrCatAll(<<W("su: user "), a, W(" does not exist")>>),
      StrCatAll(<<W("passwd: user '"), a, W("' does not exist")>>),
      StrCat(a, W(": command not found")) }

\* the line printed a missing-operand or a not-found error
failedToFind(line, output) ==
    /\ Len(output) = 1
    /\ \/ output[1] \in missingOperand
       \/ \E i \in 1..Len(line) : output[1] \in notFound(line[i])

\* C34: in Normal mode a line that only reads (pwd, cd, ls, cat, whoami, grep, echo
\* without redirection, help, man, date, uname, df, ps, top, apt, exit, clear, the empty
\* line, an unrecognized command) and any line that prints a missing-operand or a
\* not-found error leave the persisted tree, users and currentUser as they were.
C34_ReadingKeepsStore ==
    [][Normal(state) /\ now' # now
       /\ (onlyReads(lastLine') \/ failedToFind(lastLine', lastResult'.output))
       => /\ persisted'.root = persisted.root
          /\ persisted'.users = persisted.users
          /\ persisted'.currentUser = persisted.currentUser]_vars

\* `rm nofile` has printed its error in a store an earlier line has written
C34_FailedAfterWrite ==
    /\ lastLine = L(<<"rm", "nofile">>)
    /\ failedToFind(lastLine, lastResult.output)
    /\ localStorage # << >>
    /\ persisted.root # DefaultRoot

-----------------------------------------------------------------------------
(* Claims about autocompletion, over AutoSpec.                              *)

\* the interpreter has a handler for the word other than the `command not found` default
accepted(cmd) ==
    dispatch(cmd, <<cmd>>, state, loaded, now + 1, 1000).result
        # cmdDefault(<<cmd>>, cmd, loaded).result

Range(seq) == { seq[i] : i \in DOMAIN seq }

\* the suggestion for a child of the current directory: the command, the name, and a
\* slash after a directory
suggestion(cmd, children, name) ==
    IF children[name].type = "directory" THEN StrCat(JoinSp(<<cmd, W(name)>>), SLASH)
    ELSE JoinSp(<<cmd, W(name)>>)

\* the suggestions for the children of the current directory that start with the token
suggestions(cmd, token) ==
    IF ~isDirectory(entryAt(persisted, call'.currentPath)) THEN {}
    ELSE { suggestion(cmd, childrenHere(persisted), name) :
           name \in { n \in DOMAIN childrenHere(persisted) : startsWith(n, token) } }

\* the step is a Tab: getAutocompleteOptions returned, no line was submitted
tabbed == call'.fn = "getAutocompleteOptions" /\ now' = now

\* the completions of a command word are words the interpreter accepts
commandsAccepted ==
    Len(call'.input) = 1 => \A i \in DOMAIN returned' : accepted(returned'[i])

\* the completions after a path-taking command are the children starting with the token
childrenSuggested ==
    Len(call'.input) = 2 /\ call'.input[1] \in pathCommands
    => Range(returned') = suggestions(call'.input[1], call'.input[2])

\* C35: every command name getAutocompleteOptions returns for a single-token input is
\* dispatched by processCommandInternal to a handler other than the `command not found`
\* default; for a two-token input whose first token is a path-taking command the
\* suggestions are the children of the current directory whose names start with the
\* second token, with a slash after a directory.
C35_AutocompleteAccepted ==
    [][tabbed => commandsAccepted /\ childrenSuggested]_vars

====
